---- MODULE Spec2Model ----
(***************************************************************************)
(* Model of the database administration scripts of cyber-class-compass:    *)
(* cleanup (cleanup.ts), backup (backup.ts, db-backup.js) and restore      *)
(* (restore.ts) over the service_requests table of the record store.       *)
(*                                                                         *)
(* Strings are sequences of UTF-16 code units, as JavaScript sees them, so *)
(* that toLowerCase, JSON.stringify, JSON.parse and simpleHash are         *)
(* computed on the characters.  Timestamps are abbreviated to one digit    *)
(* that counts half days ("2" and "3" are the same calendar day).          *)
(***************************************************************************)
EXTENDS Integers, Sequences, FiniteSets, TLC

\* ---------------------------------------------------------------- bounds
MaxRecords == 2      \* rows in the service_requests table
MaxFaults  == 1      \* store calls that fail during one run

\* ---------------------------------------------------------------- strings
pending     == <<112,101,110,100,105,110,103>>              \* "pending"
in_progress == <<105,110,95,112,114,111,103,114,101,115,115>> \* "in_progress"
completed   == <<99,111,109,112,108,101,116,101,100>>       \* "completed"
cancelled   == <<99,97,110,99,101,108,108,101,100>>         \* "cancelled"
bogus       == <<98,111,103,117,115>>                       \* "bogus"
low         == <<108,111,119>>                              \* "low"
normal      == <<110,111,114,109,97,108>>                   \* "normal"
high        == <<104,105,103,104>>                          \* "high"
urgent      == <<117,114,103,101,110,116>>                  \* "urgent"
EmailA      == <<97,64,98,46,99>>                           \* "a@b.c"
EmailBad    == <<110,111,98,111,100,121>>                   \* "nobody"
ServiceWeb  == <<119,101,98>>                               \* "web"
AnsS        == <<115>>                                      \* "s"
AnsSim      == <<115,105,109>>                              \* "sim"
AnsUpperS   == <<83>>                                       \* "S"
AnsUpperSim == <<83,73,77>>                                 \* "SIM"
AnsN        == <<110>>                                      \* "n"
AnsYes      == <<121,101,115>>                              \* "yes"
AnsSimSpace == <<115,105,109,32>>                           \* "sim "

\* what the operator may type at a (s/N) prompt; <<>> is a bare Enter
Answers == {AnsS, AnsUpperSim, AnsN, AnsYes, AnsSimSpace, <<>>}

\* String.prototype.toLowerCase on the ASCII range
ToLower(s) == [k \in 1..Len(s) |-> IF s[k] >= 65 /\ s[k] <= 90 THEN s[k] + 32 ELSE s[k]]

\* the test both prompts apply to the answer
IsYesUnlessNo(answer) == ToLower(answer) # AnsN

IsYes(answer) == ToLower(answer) = AnsS \/ ToLower(answer) = AnsSim

\* ---------------------------------------------------------------- records
\* the ids the table may hold, in the order rows are created
Ids == <<(<<97>>), (<<98>>), (<<99>>), (<<100>>)>>     \* "a", "b", "c", "d"

Emails     == {EmailA, EmailBad}
Statuses   == {pending, completed, cancelled, bogus}
Priorities == {normal, bogus}
CreatedAts == {<<50>>, <<56>>}                         \* "2" (day 1), "8" (day 4)

\* null, where a column holds no string
Null == <<-1>>

\* completed_at of a row: set on a completed row, and on the row of invalid
\* status created on day 1 (it was completed once); null on every other row
CompletedAtOf(status, created_at) ==
  IF status = completed \/ (status = bogus /\ created_at = <<50>>) THEN <<57>> ELSE Null

\* the rows a table may hold under an id: every status on either date, an
\* invalid priority on a pending or invalid-status row, a malformed e-mail
\* on an otherwise sound row
ServiceRequest(id) ==
  {[id |-> id, email |-> r.email, service_type |-> ServiceWeb, status |-> r.status,
    priority |-> r.priority, created_at |-> r.created_at,
    completed_at |-> CompletedAtOf(r.status, r.created_at)] :
     r \in [email : {EmailA}, status : Statuses, priority : {normal}, created_at : CreatedAts]
           \cup
           [email : {EmailA}, status : {pending, bogus}, priority : Priorities \ {normal},
            created_at : {<<56>>}]
           \cup
           [email : Emails \ {EmailA}, status : {pending}, priority : {normal},
            created_at : {<<56>>}]}

\* every table content with rows Ids[1..n], n <= MaxRecords; a store maps
\* the ids that are present to their rows
RECURSIVE StoresOf(_)
StoresOf(n) ==
  IF n = 0 THEN {<<>>}
  ELSE {[j \in 1..n |-> IF j = n THEN r ELSE s[j]] : s \in StoresOf(n - 1), r \in ServiceRequest(Ids[n])}

AsStore(rows) == [id \in {rows[j].id : j \in 1..Len(rows)} |->
                    (CHOOSE r \in {rows[j] : j \in 1..Len(rows)} : r.id = id)]

InitialStores == UNION {{AsStore(rows) : rows \in StoresOf(n)} : n \in 0..MaxRecords}

\* new Date(created_at).getTime(), in half days
TimeOf(created_at) == created_at[1] - 48
TicksPerDay == 2
\* new Date(created_at).toDateString(): the calendar day, as text
ToDateString(created_at) == <<48 + (TimeOf(created_at) \div TicksPerDay)>>
\* Date.now(), in half days
Now == 9

Range(s) == {s[k] : k \in 1..Len(s)}

\* select('*'): every row, in an order the store chooses
SelectOrders(st) ==
  {q \in [1..Cardinality(DOMAIN st) -> {st[id] : id \in DOMAIN st}] :
     \A a, b \in DOMAIN q : a # b => q[a] # q[b]}

\* select('*').order('created_at', {ascending: false}): every row, newest
\* first; rows with equal created_at come in an order the store chooses
FetchOrders(st) ==
  {q \in SelectOrders(st) :
     \A a, b \in DOMAIN q : a < b => TimeOf(q[a].created_at) >= TimeOf(q[b].created_at)}

\* ---------------------------------------------------------------- cleanup.ts
\* \s of a JavaScript regular expression, on the code units used here
IsSpace(c) == c \in {9, 10, 11, 12, 13, 32, 160}

\* emailRegex.test(email) for /^[^\s@]+@[^\s@]+\.[^\s@]+$/
EmailRegexTest(email) ==
  \E p \in 1..Len(email) :
    /\ email[p] = 64
    /\ \A k \in 1..Len(email) : ~IsSpace(email[k]) /\ (email[k] = 64 => k = p)
    /\ p > 1
    /\ \E q \in (p + 2)..(Len(email) - 1) : email[q] = 46

validStatuses   == {pending, in_progress, completed, cancelled}
validPriorities == {low, normal, high, urgent}

\* the key of the duplicate check: `${email}-${service_type}-${toDateString()}`
DuplicateKey(record) ==
  record.email \o <<45>> \o record.service_type \o <<45>> \o ToDateString(record.created_at)

EmptyReport ==
  [invalidStatus |-> <<>>, invalidPriority |-> <<>>, invalidEmail |-> <<>>,
   oldRecords |-> <<>>, cancelledRecords |-> <<>>, duplicates |-> <<>>]

PushIf(cond, list, record) == IF cond THEN Append(list, record) ELSE list

\* one iteration of data.forEach in analyzeData
AnalyzeRecord(rep, seen, record, options) ==
  [invalidStatus    |-> PushIf(record.status \notin validStatuses, rep.invalidStatus, record),
   invalidPriority  |-> PushIf(record.priority \notin validPriorities, rep.invalidPriority, record),
   invalidEmail     |-> PushIf(record.email = <<>> \/ ~EmailRegexTest(record.email),
                               rep.invalidEmail, record),
   oldRecords       |-> PushIf(/\ options.removeOld # 0
                               /\ Now - TimeOf(record.created_at) > options.removeOld * TicksPerDay
                               /\ record.status = completed,
                               rep.oldRecords, record),
   cancelledRecords |-> PushIf(options.removeCancelled /\ record.status = cancelled,
                               rep.cancelledRecords, record),
   duplicates       |-> PushIf(DuplicateKey(record) \in seen, rep.duplicates, record)]

RECURSIVE AnalyzeFrom(_, _, _, _, _)
AnalyzeFrom(data, options, k, rep, seen) ==
  IF k > Len(data) THEN rep
  ELSE AnalyzeFrom(data, options, k + 1,
                   AnalyzeRecord(rep, seen, data[k], options),
                   seen \cup {DuplicateKey(data[k])})

analyzeData(data, options) == AnalyzeFrom(data, options, 1, EmptyReport, {})

\* totalIssues of runCleanup
TotalIssues(rep) ==
  Len(rep.invalidStatus) + Len(rep.invalidPriority) + Len(rep.invalidEmail)
    + Len(rep.oldRecords) + Len(rep.cancelledRecords) + Len(rep.duplicates)

\* totalActions of confirmCleanup: invalid e-mails are reported, never acted on
TotalActions(rep) ==
  Len(rep.invalidStatus) + Len(rep.invalidPriority)
    + Len(rep.oldRecords) + Len(rep.cancelledRecords) + Len(rep.duplicates)

\* parseArgs of cleanup.ts; removeOld = 0 stands for null (flag absent);
\* --fix-status, --fix-priority and --remove-orphans are parsed and never read
RemoveOldDays == 2
CleanupOptions ==
  [dryRun : BOOLEAN, removeOld : {0, RemoveOldDays}, removeCancelled : BOOLEAN]

\* process.argv.slice(2) of a cleanup run: any of the flags parseArgs knows
\* ("--remove-old" stands for --remove-old=<RemoveOldDays>), and --force,
\* for which args.forEach has no case
CleanupArgvs ==
  (SUBSET {"--dry-run", "--remove-old", "--remove-cancelled"})
  \cup {{"--force"}, {"--force", "--dry-run"}, {"--force", "--remove-cancelled"}}

\* parseArgs of cleanup.ts, on the flags that are read later
CleanupParseArgs(args) ==
  [dryRun          |-> "--dry-run" \in args,
   removeOld       |-> IF "--remove-old" \in args THEN RemoveOldDays ELSE 0,
   removeCancelled |-> "--remove-cancelled" \in args]


\* ---------------------------------------------------------------- JSON
\* JSON values carry their type: a string (its code units), a number (its
\* digits), a literal (its name), an array (its items) or an object (its
\* members, <<key, value>> pairs in insertion order)
K_id               == <<105,100>>                                     \* "id"
K_email            == <<101,109,97,105,108>>                          \* "email"
K_service_type     == <<115,101,114,118,105,99,101,95,116,121,112,101>> \* "service_type"
K_status           == <<115,116,97,116,117,115>>                      \* "status"
K_priority         == <<112,114,105,111,114,105,116,121>>             \* "priority"
K_created_at       == <<99,114,101,97,116,101,100,95,97,116>>         \* "created_at"
K_service_requests == <<115,101,114,118,105,99,101,95,114,101,113,117,101,115,116,115>> \* "service_requests"
K_metadata         == <<109,101,116,97,100,97,116,97>>                \* "metadata"
K_data             == <<100,97,116,97>>                               \* "data"
K_checksum         == <<99,104,101,99,107,115,117,109>>               \* "checksum"
K_version          == <<118,101,114,115,105,111,110>>                 \* "version"
K_tables           == <<116,97,98,108,101,115>>                       \* "tables"
K_name             == <<110,97,109,101>>                              \* "name"
K_count            == <<99,111,117,110,116>>                          \* "count"
K_type             == <<116,121,112,101>>                             \* "type"
K_records          == <<114,101,99,111,114,100,115>>                  \* "records"
V100               == <<49,46,48,46,48>>                              \* "1.0.0"
V10                == <<49,46,48>>                                    \* "1.0"
T_full             == <<102,117,108,108>>                             \* "full"
L_null             == <<110,117,108,108>>                             \* null
L_true             == <<116,114,117,101>>                             \* true
L_false            == <<102,97,108,115,101>>                          \* false

JStr(s)   == [t |-> "str", v |-> s]
JNum(d)   == [t |-> "num", v |-> d]
JLit(n)   == [t |-> "lit", v |-> n]
JArr(xs)  == [t |-> "arr", v |-> xs]
JObj(ms)  == [t |-> "obj", v |-> ms]
Undefined == [t |-> "undefined", v |-> <<>>]

RECURSIVE Flatten(_)
Flatten(parts) == IF parts = <<>> THEN <<>> ELSE Head(parts) \o Flatten(Tail(parts))

HexDigit(n) == IF n < 10 THEN 48 + n ELSE 87 + n

\* the escape JSON.stringify writes for one code unit of a string
EscapeChar(c) ==
  CASE c = 34 -> <<92, 34>>
    [] c = 92 -> <<92, 92>>
    [] c = 8  -> <<92, 98>>
    [] c = 12 -> <<92, 102>>
    [] c = 10 -> <<92, 110>>
    [] c = 13 -> <<92, 114>>
    [] c = 9  -> <<92, 116>>
    [] c < 32 /\ c \notin {8, 9, 10, 12, 13} ->
         <<92, 117, 48, 48, HexDigit(c \div 16), HexDigit(c % 16)>>
    [] OTHER  -> <<c>>

Quote(s) == <<34>> \o Flatten([k \in 1..Len(s) |-> EscapeChar(s[k])]) \o <<34>>

Spaces(n) == [k \in 1..n |-> 32]

\* the line break and indentation JSON.stringify(value, null, indent) puts
\* before an item at nesting depth lvl; nothing when indent = 0
Break(indent, lvl) == IF indent = 0 THEN <<>> ELSE <<10>> \o Spaces(indent * lvl)

RECURSIVE StringifyAt(_, _, _)
RECURSIVE JoinItems(_, _, _, _)
JoinItems(xs, k, indent, lvl) ==
  IF k > Len(xs) THEN <<>>
  ELSE (IF k > 1 THEN <<44>> ELSE <<>>) \o Break(indent, lvl)
         \o StringifyAt(xs[k], indent, lvl) \o JoinItems(xs, k + 1, indent, lvl)

RECURSIVE JoinMembers(_, _, _, _)
JoinMembers(ms, k, indent, lvl) ==
  IF k > Len(ms) THEN <<>>
  ELSE (IF k > 1 THEN <<44>> ELSE <<>>) \o Break(indent, lvl)
         \o Quote(ms[k][1]) \o <<58>> \o (IF indent = 0 THEN <<>> ELSE <<32>>)
         \o StringifyAt(ms[k][2], indent, lvl) \o JoinMembers(ms, k + 1, indent, lvl)

StringifyAt(val, indent, lvl) ==
  CASE val.t = "str" -> Quote(val.v)
    [] val.t = "num" -> val.v
    [] val.t = "lit" -> val.v
    [] val.t = "arr" ->
         IF Len(val.v) = 0 THEN <<91, 93>>
         ELSE <<91>> \o JoinItems(val.v, 1, indent, lvl + 1) \o Break(indent, lvl) \o <<93>>
    [] val.t = "obj" ->
         IF Len(val.v) = 0 THEN <<123, 125>>
         ELSE <<123>> \o JoinMembers(val.v, 1, indent, lvl + 1) \o Break(indent, lvl) \o <<125>>

\* JSON.stringify(value) and JSON.stringify(value, null, indent)
Stringify(val, indent) == StringifyAt(val, indent, 0)


\* ---------------------------------------------------------------- JSON.parse
Fail == [ok |-> FALSE, v |-> Undefined, pos |-> 0]
Ok(val, pos) == [ok |-> TRUE, v |-> val, pos |-> pos]

IsJsonSpace(c) == c \in {9, 10, 13, 32}
IsDigit(c) == c >= 48 /\ c <= 57
IsHex(c) == IsDigit(c) \/ (c >= 97 /\ c <= 102) \/ (c >= 65 /\ c <= 70)
HexValue(c) == IF IsDigit(c) THEN c - 48 ELSE IF c >= 97 THEN c - 87 ELSE c - 55

RECURSIVE SkipSpace(_, _)
SkipSpace(text, p) ==
  IF p <= Len(text) /\ IsJsonSpace(text[p]) THEN SkipSpace(text, p + 1) ELSE p

\* the code unit an escape \e stands for; 0 when \e is no escape
Unescape(e) ==
  CASE e = 34 -> 34 [] e = 92 -> 92 [] e = 47 -> 47 [] e = 98 -> 8 [] e = 102 -> 12
    [] e = 110 -> 10 [] e = 114 -> 13 [] e = 116 -> 9 [] OTHER -> 0

\* the rest of a string literal, p being the first position after its
\* opening quote
RECURSIVE ParseString(_, _, _)
ParseString(text, p, acc) ==
  IF p > Len(text) THEN Fail
  ELSE IF text[p] = 34 THEN Ok(acc, p + 1)
  ELSE IF text[p] < 32 THEN Fail
  ELSE IF text[p] # 92 THEN ParseString(text, p + 1, Append(acc, text[p]))
  ELSE IF p + 1 > Len(text) THEN Fail
  ELSE IF text[p + 1] = 117 THEN
    IF p + 5 <= Len(text) /\ \A k \in (p + 2)..(p + 5) : IsHex(text[k])
    THEN ParseString(text, p + 6,
           Append(acc, HexValue(text[p + 2]) * 4096 + HexValue(text[p + 3]) * 256
                         + HexValue(text[p + 4]) * 16 + HexValue(text[p + 5])))
    ELSE Fail
  ELSE IF Unescape(text[p + 1]) = 0 THEN Fail
  ELSE ParseString(text, p + 2, Append(acc, Unescape(text[p + 1])))

\* the digits of an integer literal that starts at p
RECURSIVE DigitsEnd(_, _)
DigitsEnd(text, p) ==
  IF p <= Len(text) /\ IsDigit(text[p]) THEN DigitsEnd(text, p + 1) ELSE p

ParseNumber(text, p) ==
  LET e == DigitsEnd(text, p) IN
  IF text[p] = 48 /\ e > p + 1 THEN Fail
  ELSE Ok(JNum(SubSeq(text, p, e - 1)), e)

ParseLiteral(text, p, name) ==
  IF p + Len(name) - 1 <= Len(text) /\ SubSeq(text, p, p + Len(name) - 1) = name
  THEN Ok(JLit(name), p + Len(name))
  ELSE Fail

\* obj[key] = val: a repeated key keeps its place and takes the later value
RECURSIVE PutMember(_, _, _, _)
PutMember(ms, k, key, val) ==
  IF k > Len(ms) THEN Append(ms, <<key, val>>)
  ELSE IF ms[k][1] = key THEN [ms EXCEPT ![k] = <<key, val>>]
  ELSE PutMember(ms, k + 1, key, val)

RECURSIVE ParseValue(_, _)
RECURSIVE ParseItems(_, _, _)
RECURSIVE ParseMembers(_, _, _)

\* the items of an array after "[" or ",": value, then "," or "]"
ParseItems(text, p, acc) ==
  LET r == ParseValue(text, p)
      q == SkipSpace(text, r.pos)
  IN
  IF ~r.ok \/ q > Len(text) THEN Fail
  ELSE IF text[q] = 44 THEN ParseItems(text, q + 1, Append(acc, r.v))
  ELSE IF text[q] = 93 THEN Ok(JArr(Append(acc, r.v)), q + 1)
  ELSE Fail

\* the members of an object after "{" or ",": "key" : value, then "," or "}"
ParseMembers(text, p, acc) ==
  LET k0 == SkipSpace(text, p) IN
  IF k0 > Len(text) \/ text[k0] # 34 THEN Fail
  ELSE
    LET key == ParseString(text, k0 + 1, <<>>)
        c   == SkipSpace(text, key.pos)
    IN
    IF ~key.ok \/ c > Len(text) \/ text[c] # 58 THEN Fail
    ELSE
      LET r == ParseValue(text, c + 1)
          q == SkipSpace(text, r.pos)
      IN
      IF ~r.ok \/ q > Len(text) THEN Fail
      ELSE IF text[q] = 44 THEN ParseMembers(text, q + 1, PutMember(acc, 1, key.v, r.v))
      ELSE IF text[q] = 125 THEN Ok(JObj(PutMember(acc, 1, key.v, r.v)), q + 1)
      ELSE Fail

ParseValue(text, p) ==
  LET q == SkipSpace(text, p) IN
  IF q > Len(text) THEN Fail
  ELSE IF text[q] = 34 THEN
    LET r == ParseString(text, q + 1, <<>>) IN
    IF r.ok THEN Ok(JStr(r.v), r.pos) ELSE Fail
  ELSE IF text[q] = 91 THEN
    LET e == SkipSpace(text, q + 1) IN
    IF e <= Len(text) /\ text[e] = 93 THEN Ok(JArr(<<>>), e + 1)
    ELSE ParseItems(text, q + 1, <<>>)
  ELSE IF text[q] = 123 THEN
    LET e == SkipSpace(text, q + 1) IN
    IF e <= Len(text) /\ text[e] = 125 THEN Ok(JObj(<<>>), e + 1)
    ELSE ParseMembers(text, q + 1, <<>>)
  ELSE IF IsDigit(text[q]) THEN ParseNumber(text, q)
  ELSE IF text[q] = 110 THEN ParseLiteral(text, q, L_null)
  ELSE IF text[q] = 116 THEN ParseLiteral(text, q, L_true)
  ELSE IF text[q] = 102 THEN ParseLiteral(text, q, L_false)
  ELSE Fail

\* JSON.parse(text): one value and nothing but white space after it; a
\* result that is not ok stands for the SyntaxError
JsonParse(text) ==
  LET r == ParseValue(text, 1) IN
  IF r.ok /\ SkipSpace(text, r.pos) > Len(text) THEN r ELSE Fail

\* value[key] of JavaScript, for an own property of a parsed object
RECURSIVE MemberAt(_, _, _)
MemberAt(ms, k, key) ==
  IF k > Len(ms) THEN Undefined
  ELSE IF ms[k][1] = key THEN ms[k][2]
  ELSE MemberAt(ms, k + 1, key)

Prop(val, key) == IF val.t = "obj" THEN MemberAt(val.v, 1, key) ELSE Undefined

\* !value is false
Truthy(val) ==
  CASE val.t = "undefined" -> FALSE
    [] val.t = "lit" -> val.v = L_true
    [] val.t = "num" -> val.v # <<48>>
    [] val.t = "str" -> val.v # <<>>
    [] OTHER -> TRUE


\* ---------------------------------------------------------------- simpleHash
\* a 32-bit integer is kept as its two 16-bit halves, so that nothing here
\* leaves the 32-bit range of the model checker's own integers
Half == 65536
Word(hi, lo) == [hi |-> hi, lo |-> lo]

\* hash << 5
Shl5(w) == Word((w.hi * 32 + (w.lo * 32) \div Half) % Half, (w.lo * 32) % Half)
\* a - b, modulo 2^32
Sub32(a, b) ==
  LET borrow == IF a.lo < b.lo THEN 1 ELSE 0 IN
  Word((a.hi - b.hi - borrow + 2 * Half) % Half, (a.lo - b.lo + Half) % Half)
\* a + c for a code unit c, modulo 2^32
AddChar(a, c) == Word((a.hi + (a.lo + c) \div Half) % Half, (a.lo + c) % Half)

IsNegative(w) == w.hi >= Half \div 2
\* Math.abs(hash): the magnitude of the signed value, up to 2^31
Abs32(w) ==
  IF ~IsNegative(w) THEN w
  ELSE Word((Half - 1 - w.hi + (IF w.lo = 0 THEN 1 ELSE 0)) % Half, (Half - w.lo) % Half)

\* the body of the loop of simpleHash:
\* hash = ((hash << 5) - hash) + char; hash = hash & hash
HashStep(hash, char) == AddChar(Sub32(Shl5(hash), hash), char)

\* the loop of simpleHash over str[from..to], left to right, starting from
\* hash (the range is halved only to keep the evaluation shallow)
RECURSIVE HashFrom(_, _, _, _)
HashFrom(str, from, to, hash) ==
  IF from > to THEN hash
  ELSE IF from = to THEN HashStep(hash, str[from])
  ELSE LET mid  == (from + to) \div 2
           left == HashFrom(str, from, mid, hash)
       IN IF left.hi >= 0 THEN HashFrom(str, mid + 1, to, left) ELSE left

\* Number.prototype.toString(16) of a magnitude
RECURSIVE HexOf(_)
HexOf(n) == IF n < 16 THEN <<HexDigit(n)>> ELSE Append(HexOf(n \div 16), HexDigit(n % 16))
Hex4(n) == <<HexDigit(n \div 4096), HexDigit((n \div 256) % 16), HexDigit((n \div 16) % 16), HexDigit(n % 16)>>
ToString16(w) == IF w.hi = 0 THEN HexOf(w.lo) ELSE HexOf(w.hi) \o Hex4(w.lo)

\* String.prototype.padStart(width, "0")
PadStart(str, width) == IF Len(str) >= width THEN str ELSE [k \in 1..(width - Len(str)) |-> 48] \o str

ChecksumWidth == 16
simpleHash(str) == PadStart(ToString16(Abs32(HashFrom(str, 1, Len(str), Word(0, 0)))), ChecksumWidth)


\* ---------------------------------------------------------------- backup files
\* the columns of service_requests that the scripts read, in table order
Columns == <<K_id, K_email, K_service_type, K_status, K_priority, K_created_at>>

\* a row as the store client returns it: an object with one string per column
RowJson(row) ==
  JObj(<< <<K_id, JStr(row.id)>>, <<K_email, JStr(row.email)>>,
          <<K_service_type, JStr(row.service_type)>>, <<K_status, JStr(row.status)>>,
          <<K_priority, JStr(row.priority)>>, <<K_created_at, JStr(row.created_at)>> >>)

RowsJson(rows) == JArr([k \in 1..Len(rows) |-> RowJson(rows[k])])

\* the decimal digits of a row count
RECURSIVE Digits(_)
Digits(n) == IF n < 10 THEN <<48 + n>> ELSE Append(Digits(n \div 10), 48 + (n % 10))

\* backupData of createBackup (backup.ts), with the checksum filled in; of
\* the metadata, createdAt, createdBy, projectId and environment are only
\* ever printed and are left out
BackupTsData(rows) ==
  LET data == JObj(<< <<K_service_requests, RowsJson(rows)>> >>) IN
  JObj(<< <<K_metadata,
            JObj(<< <<K_version, JStr(V100)>>,
                    <<K_tables, JArr(<< JObj(<< <<K_name, JStr(K_service_requests)>>,
                                                <<K_count, JNum(Digits(Len(rows)))>> >>) >>)>>,
                    <<K_checksum, JStr(simpleHash(Stringify(data, 0)))>> >>)>>,
          <<K_data, data>> >>)

\* backupData of BackupManager.createFullBackup (db-backup.js) for a store
\* whose only table is service_requests; outcome is what backupTable met:
\* the rows, a missing table or another error (description, timestamp and
\* reason are only ever printed and are left out)
K_backedUp == <<98,97,99,107,101,100,85,112>>       \* "backedUp"
FullBackupData(rows, outcome) ==
  JObj(<< <<K_metadata,
            JObj(<< <<K_version, JStr(V10)>>,
                    <<K_type, JStr(T_full)>>,
                    <<K_tables, JArr(<< JObj(<< <<K_name, JStr(K_service_requests)>>,
                                                <<K_records, JNum(Digits(IF outcome = "ok" THEN Len(rows) ELSE 0))>>,
                                                <<K_backedUp, JLit(IF outcome = "ok" THEN L_true ELSE L_false)>> >>) >>)>> >>)>>,
          <<K_data, IF outcome = "ok" THEN JObj(<< <<K_service_requests, RowsJson(rows)>> >>)
                    ELSE JObj(<<>>)>> >>)

\* backupData of BackupManager.createServiceRequestsBackup
ServiceRequestsBackupData(rows) ==
  JObj(<< <<K_metadata,
            JObj(<< <<K_version, JStr(V10)>>,
                    <<K_type, JStr(K_service_requests)>>,
                    <<K_records, JNum(Digits(Len(rows)))>> >>)>>,
          <<K_data, RowsJson(rows)>> >>)

\* gzipSync(Buffer.from(jsonData)) as readFileSync(path, 'utf-8') shows it:
\* the gzip magic bytes 1f 8b (the second is no valid UTF-8 and decodes to
\* U+FFFD) and the deflate method byte; nothing in the repository inflates
\* the stream, which is not modelled further
Gzip(text) == <<31, 65533, 8>>

PrettyIndent == 2

\* the file an export writes: its name prefix, whether it is compressed,
\* its content, and for the record which export wrote it, the rows the
\* table held then, whether the export read them,
\* where the text of its data member starts and how long that text is
BackupFile(name, by, backupData, compress, rows, fetched) ==
  LET text    == Stringify(backupData, PrettyIndent)
      payload == StringifyAt(Prop(backupData, K_data), PrettyIndent, 1)
  IN [name |-> name, by |-> by, gz |-> compress,
      text |-> IF compress THEN Gzip(text) ELSE text,
      held |-> AsStore(rows), fetched |-> fetched, tampered |-> FALSE,
      payloadAt  |-> IF compress THEN 0 ELSE Len(text) - Len(payload) - 1,
      payloadLen |-> IF compress THEN 0 ELSE Len(payload)]

\* config.backup.maxBackups
maxBackups == 10

\* cleanupOldBackups over the directory listing, oldest file first: the
\* files beyond the maxBackups newest are unlinked, except those whose
\* unlink throws (failing, a set of positions in the listing)
cleanupOldBackups(fs, failing) ==
  IF Len(fs) <= maxBackups THEN fs
  ELSE LET keep == {k \in 1..Len(fs) : k > Len(fs) - maxBackups \/ k \in failing} IN
       [j \in 1..Cardinality(keep) |->
          fs[CHOOSE k \in keep : Cardinality({m \in keep : m < k}) = j - 1]]


\* ---------------------------------------------------------------- state
VARIABLES
  store,      \* the service_requests table: id -> row, for the ids present
  store0,     \* the table when the run started (history variable)
  opLog,      \* the mutating store calls issued so far, in order
  faults,     \* how many of them failed
  typed,      \* what was typed at the confirmation prompt: <<>> or <<answer>>
  cpc,        \* cleanup: "start", "confirm", "execute", "done"
  cargv,      \* cleanup: the command line
  copts,      \* cleanup: the parsed command line
  report,     \* cleanup: the CleanupReport of analyzeData
  cloop,      \* cleanup: which of the five loops of executeCleanup runs
  ci,         \* cleanup: index of the next record in that loop
  counters,   \* cleanup: fixed, removed, errors
  cresult,    \* cleanup: how the run ended
  files,      \* the backups directory: the files in it, oldest first
  rpc,        \* restore: "start", "confirm", "execute", "done"
  ropts,      \* restore: the parsed command line and the file it names
  backupData, \* restore: the parsed backup file
  ri,         \* restore: index of the next record of executeRestore
  rcounters,  \* restore: inserted, skipped, errors
  rout,       \* restore: what the run printed and how it ended
  audit,      \* the integrity checks: their input rows and what each found
  mon,        \* monitor.ts: the DatabaseMonitor and its loop
  live,       \* live.ts: the LiveDashboard and its loop
  health,     \* the health run: its engine, the probes run, the results
  dir,        \* the backups directory of db-backup.js and what the last run did to it
  stats       \* the statistics report: its engine, its rows, its counts

cleanupVars == <<cpc, cargv, copts, report, cloop, ci, counters, cresult>>
restoreVars == <<rpc, ropts, backupData, ri, rcounters, rout>>
storeVars   == <<store, store0, opLog, faults>>
toolVars    == <<audit, mon, live, health, dir, stats>>

\* ---------------------------------------------------------------- the store
\* .update(patch).eq('id', id): patches the row with that id, if there is one
StoreUpdate(st, id, field, value) ==
  IF id \in DOMAIN st THEN [st EXCEPT ![id] = [@ EXCEPT ![field] = value]] ELSE st

\* .delete().eq('id', id): removes the row with that id, if there is one
StoreDelete(st, id) == [k \in (DOMAIN st) \ {id} |-> st[k]]

\* what a store call can come back with: a result without error, a result
\* with an error, or a rejected promise
Outcomes == {"ok", "error", "throw"}

\* ---------------------------------------------------------------- executeCleanup
CleanupLoopsKeepDuplicates(rep, options) ==
  << rep.invalidStatus,
     rep.invalidPriority,
     IF options.removeOld # 0 THEN rep.oldRecords ELSE <<>>,
     IF options.removeCancelled THEN rep.cancelledRecords ELSE <<>>,
     <<>> >>

\* the five for-loops of executeCleanup, in source order
CleanupLoops(rep, options) ==
  << rep.invalidStatus,
     rep.invalidPriority,
     IF options.removeOld # 0 THEN rep.oldRecords ELSE <<>>,
     IF options.removeCancelled THEN rep.cancelledRecords ELSE <<>>,
     rep.duplicates >>

LoopCount == 5

CleanupCallCompleted(loop, record) ==
  CASE loop = 1 -> [op |-> "update", id |-> record.id, field |-> "status", value |-> completed]
    [] loop = 2 -> [op |-> "update", id |-> record.id, field |-> "priority", value |-> normal]
    [] OTHER    -> [op |-> "delete", id |-> record.id, field |-> "", value |-> <<>>]

\* the store call in the body of each loop
CleanupCall(loop, record) ==
  CASE loop = 1 -> [op |-> "update", id |-> record.id, field |-> "status", value |-> pending]
    [] loop = 2 -> [op |-> "update", id |-> record.id, field |-> "priority", value |-> normal]
    [] OTHER    -> [op |-> "delete", id |-> record.id, field |-> "", value |-> <<>>]

ApplyCall(st, call) ==
  IF call.op = "update" THEN StoreUpdate(st, call.id, call.field, call.value)
  ELSE StoreDelete(st, call.id)

\* the loop and index that run after (loop, k): the next record of the same
\* loop, or the first record of the next loop that has any; <<6, 1>> at the end
RECURSIVE FirstFrom(_, _)
FirstFrom(loops, loop) ==
  IF loop > LoopCount THEN <<LoopCount + 1, 1>>
  ELSE IF Len(loops[loop]) > 0 THEN <<loop, 1>>
  ELSE FirstFrom(loops, loop + 1)

AfterStep(loops, loop, k) ==
  IF k < Len(loops[loop]) THEN <<loop, k + 1>> ELSE FirstFrom(loops, loop + 1)

BumpErrorsDropped(cnt, loop, outcome) ==
  IF outcome # "ok" THEN cnt
  ELSE IF loop <= 2 THEN [cnt EXCEPT !.fixed = @ + 1]
  ELSE [cnt EXCEPT !.removed = @ + 1]

\* the counter a loop body bumps: if (error) errors++ else fixed++ / removed++,
\* catch { errors++ }
Bump(cnt, loop, outcome) ==
  IF outcome # "ok" THEN [cnt EXCEPT !.errors = @ + 1]
  ELSE IF loop <= 2 THEN [cnt EXCEPT !.fixed = @ + 1]
  ELSE [cnt EXCEPT !.removed = @ + 1]

\* ---------------------------------------------------------------- runCleanup
\* if (!options.dryRun) { confirm, execute } else { report only }
CleanupDryRunIgnored(options) == FALSE

CleanupDryRun(options) == options.dryRun

\* runCleanup up to the prompt of confirmCleanup: fetch, analyse, report
CleanupStart ==
  /\ cpc = "start"
  /\ \E fetched \in BOOLEAN, data \in FetchOrders(store) :
       LET rep == analyzeData(data, copts) IN
       IF ~fetched THEN
         /\ cpc' = "done" /\ cresult' = "fetch_error" /\ report' = report
       ELSE IF Len(data) = 0 THEN
         /\ cpc' = "done" /\ cresult' = "no_data" /\ report' = report
       ELSE IF TotalIssues(rep) = 0 THEN
         /\ cpc' = "done" /\ cresult' = "clean" /\ report' = rep
       ELSE IF CleanupDryRun(copts) THEN
         /\ cpc' = "done" /\ cresult' = "dry_run" /\ report' = rep
       ELSE IF TotalActions(rep) = 0 THEN
         /\ cpc' = "done" /\ cresult' = "cancelled" /\ report' = rep
       ELSE
         /\ cpc' = "confirm" /\ cresult' = cresult /\ report' = rep
  /\ UNCHANGED <<toolVars, typed, cargv, copts, cloop, ci, counters, storeVars, files, restoreVars>>

\* the callback of rl.question in confirmCleanup, and what runCleanup does
\* with its result
CleanupConfirm ==
  /\ cpc = "confirm"
  /\ \E answer \in Answers :
       /\ typed' = <<answer>>
       /\ IF IsYes(answer) THEN
            LET first == FirstFrom(CleanupLoops(report, copts), 1) IN
            /\ cpc' = "execute" /\ cloop' = first[1] /\ ci' = first[2]
            /\ cresult' = cresult
          ELSE
            /\ cpc' = "done" /\ cresult' = "cancelled"
            /\ UNCHANGED <<cloop, ci>>
  /\ UNCHANGED <<toolVars, cargv, copts, report, counters, storeVars, files, restoreVars>>

\* one iteration of a loop of executeCleanup: the store call and its counter
CleanupStep ==
  /\ cpc = "execute"
  /\ \E outcome \in Outcomes :
       LET loops == CleanupLoops(report, copts)
           call  == CleanupCall(cloop, loops[cloop][ci])
           next  == AfterStep(loops, cloop, ci)
       IN
       /\ outcome # "ok" => faults < MaxFaults
       /\ store' = IF outcome = "ok" THEN ApplyCall(store, call) ELSE store
       /\ faults' = IF outcome = "ok" THEN faults ELSE faults + 1
       /\ opLog' = Append(opLog, [call |-> call, ok |-> outcome = "ok"])
       /\ counters' = Bump(counters, cloop, outcome)
       /\ cloop' = next[1] /\ ci' = next[2]
       /\ IF next[1] > LoopCount
            THEN cpc' = "done" /\ cresult' = "completed"
            ELSE cpc' = cpc /\ cresult' = cresult
  /\ UNCHANGED <<toolVars, typed, cargv, copts, report, store0, files, restoreVars>>

\* ---------------------------------------------------------------- exports
\* the tables the backup scenarios start from: rows Ids[1..n], n <= MaxRecords,
\* created at distinct times (newest first), the newest with either of two
\* statuses
RestoreRow(k) ==
  [id : {Ids[k]}, email : {EmailA}, service_type : {ServiceWeb},
   status : IF k = 1 THEN {pending, bogus} ELSE {pending},
   priority : {normal}, created_at : {<<56 - k>>}]

RECURSIVE RestoreRowsOf(_)
RestoreRowsOf(n) ==
  IF n = 0 THEN {<<>>}
  ELSE {Append(rows, r) : rows \in RestoreRowsOf(n - 1), r \in RestoreRow(n)}

RestoreStores == UNION {{AsStore(rows) : rows \in RestoreRowsOf(n)} : n \in 0..MaxRecords}

\* createBackup of backup.ts: fetch, wrap, checksum, write
CreateBackup ==
  /\ rpc = "start" /\ files = <<>>
  /\ \E fetched \in BOOLEAN, data \in FetchOrders(store) :
       files' = IF fetched
                THEN Append(files, BackupFile("backup", "createBackup", BackupTsData(data), FALSE, data, TRUE))
                ELSE files
  /\ UNCHANGED <<toolVars, typed, storeVars, cleanupVars, restoreVars>>

\* config.backup.autoCleanup
autoCleanup == TRUE

\* BackupManager.createFullBackup(compress), rotation included
CreateFullBackup ==
  /\ rpc = "start" /\ files = <<>>
  /\ \E compress \in BOOLEAN, outcome \in {"ok", "missing", "error"}, data \in SelectOrders(store) :
       LET written == Append(files, BackupFile("backup", "createFullBackup",
                                               FullBackupData(data, outcome), compress, data,
                                               outcome = "ok"))
       IN \E failing \in SUBSET (1..(Len(written) - maxBackups)) :
            files' = IF autoCleanup THEN cleanupOldBackups(written, failing) ELSE written
  /\ UNCHANGED <<toolVars, typed, storeVars, cleanupVars, restoreVars>>

\* BackupManager.createServiceRequestsBackup(compress): no file when the
\* table is missing or the fetch fails; no rotation
CreateServiceRequestsBackup ==
  /\ rpc = "start" /\ files = <<>>
  /\ \E compress \in BOOLEAN, outcome \in {"ok", "missing", "error"}, data \in SelectOrders(store) :
       files' = IF outcome = "ok"
                THEN Append(files, BackupFile("service_requests", "createServiceRequestsBackup",
                                              ServiceRequestsBackupData(data), compress, data, TRUE))
                ELSE files
  /\ UNCHANGED <<toolVars, typed, storeVars, cleanupVars, restoreVars>>

\* ---------------------------------------------------------------- environment
TamperSpan == 8          \* how far into the payload the changed byte lies
MutChars   == {9, 120}    \* what it is changed to: a tab or "x"

\* one byte of the payload of a backup file that carries a checksum changes
\* on disk
Tamper ==
  /\ rpc = "start" /\ Len(files) = 1
  /\ files[1].by = "createBackup" /\ ~files[1].tampered
  /\ \E off \in 0..(TamperSpan - 1), ch \in MutChars :
       LET p == files[1].payloadAt + off IN
       /\ off < files[1].payloadLen
       /\ files[1].text[p] # ch
       /\ files' = [files EXCEPT ![1] = [@ EXCEPT !.text = [@ EXCEPT ![p] = ch],
                                                  !.tampered = TRUE]]
  /\ UNCHANGED <<toolVars, typed, storeVars, cleanupVars, restoreVars>>

\* the restore is pointed at an empty table
ResetStore ==
  /\ rpc = "start" /\ Len(files) = 1
  /\ DOMAIN store # {}
  /\ store' = AsStore(<<>>)
  /\ UNCHANGED <<toolVars, typed, store0, opLog, faults, files, cleanupVars, restoreVars>>

\* a row is worked on after the backup was taken
EditStore ==
  /\ rpc = "start" /\ Len(files) = 1
  /\ Ids[1] \in DOMAIN store /\ store[Ids[1]].status # completed
  /\ store' = StoreUpdate(store, Ids[1], "status", completed)
  /\ UNCHANGED <<toolVars, typed, store0, opLog, faults, files, cleanupVars, restoreVars>>

\* ---------------------------------------------------------------- restore.ts
RestoreOptions == [file : 0..1, dryRun : BOOLEAN, force : BOOLEAN]

NullOrUndefined(val) == val.t = "undefined" \/ (val.t = "lit" /\ val.v = L_null)

\* what for (i = 0; i < requests.length; i++) requests[i] runs over
RequestItems(requests) ==
  CASE requests.t = "arr" -> requests.v
    [] requests.t = "str" -> [k \in 1..Len(requests.v) |-> JStr(<<requests.v[k]>>)]
    [] OTHER -> <<>>

\* backupData.data.service_requests
RequestsOf(bd) == Prop(Prop(bd, K_data), K_service_requests)

\* the row an upsert request carries: one string for each column and nothing
\* else; the store answers any other request with an error
IsRow(request) ==
  /\ request.t = "obj"
  /\ Len(request.v) = Len(Columns)
  /\ \A k \in 1..Len(Columns) : Prop(request, Columns[k]).t = "str"

RowOf(request) ==
  [id |-> Prop(request, K_id).v, email |-> Prop(request, K_email).v,
   service_type |-> Prop(request, K_service_type).v, status |-> Prop(request, K_status).v,
   priority |-> Prop(request, K_priority).v, created_at |-> Prop(request, K_created_at).v]

StoreUpsertMerge(st, row) ==
  [id \in (DOMAIN st) \cup {row.id} |-> IF id = row.id THEN row ELSE st[id]]

\* .upsert(row, {onConflict: 'id', ignoreDuplicates: true}): INSERT ... ON
\* CONFLICT (id) DO NOTHING
StoreUpsert(st, row) ==
  IF row.id \in DOMAIN st THEN st
  ELSE [id \in (DOMAIN st) \cup {row.id} |-> IF id = row.id THEN row ELSE st[id]]

\* what the upsert call can come back with: no error, an error whose message
\* names a duplicate or unique violation, another error, a rejected promise
UpsertOutcomes == {"ok", "error_duplicate", "error", "throw"}

\* the counter the body of the loop of executeRestore bumps
BumpRestore(cnt, outcome) ==
  CASE outcome = "ok"              -> [cnt EXCEPT !.inserted = @ + 1]
    [] outcome = "error_duplicate" -> [cnt EXCEPT !.skipped = @ + 1]
    [] OTHER                       -> [cnt EXCEPT !.errors = @ + 1]

ChecksumMismatchIgnored(bd, currentChecksum) == FALSE

\* if (currentChecksum !== backupData.metadata.checksum)
ChecksumMismatch(bd, currentChecksum) ==
  Prop(Prop(bd, K_metadata), K_checksum) # JStr(currentChecksum)

RestoreDryRunIgnored(options) == FALSE

\* if (options.dryRun) { report the count, return }
RestoreDryRun(options) == options.dryRun

\* if (!options.force) { confirmRestore }
RestoreForce(options) == options.force

\* executeRestore up to its first upsert: requests.length throws on a missing
\* list, and an empty list goes straight to the summary
BeginExecute(bd, out) ==
  IF NullOrUndefined(RequestsOf(bd)) THEN
    /\ rpc' = "done" /\ rout' = [out EXCEPT !.result = "exception"] /\ ri' = ri
  ELSE IF Len(RequestItems(RequestsOf(bd))) = 0 THEN
    /\ rpc' = "done" /\ rout' = [out EXCEPT !.result = "completed"] /\ ri' = ri
  ELSE
    /\ rpc' = "execute" /\ rout' = out /\ ri' = 1

\* restoreBackup up to the prompt of confirmRestore (or, with --force, up to
\* the first upsert): read, parse, validate, print, verify the checksum
RestoreStart ==
  /\ rpc = "start"
  /\ LET text   == IF Len(files) = 0 THEN <<>> ELSE files[1].text
         parsed == JsonParse(text)
         bd     == parsed.v
         meta   == Prop(bd, K_metadata)
         data   == Prop(bd, K_data)
         currentChecksum == simpleHash(Stringify(data, 0))
         mismatch == ChecksumMismatch(bd, currentChecksum)
     IN \E opts \in RestoreOptions :
          /\ ropts' = opts
          /\ store0' = store
          /\ IF opts.file = 0 \/ opts.file > Len(files) THEN
               /\ rpc' = "done" /\ rout' = [rout EXCEPT !.result = "no_file"]
               /\ UNCHANGED <<backupData, ri>>
             ELSE IF ~parsed.ok THEN
               /\ rpc' = "done" /\ rout' = [rout EXCEPT !.result = "invalid_json"]
               /\ UNCHANGED <<backupData, ri>>
             ELSE IF ~Truthy(meta) \/ ~Truthy(data) THEN
               /\ rpc' = "done" /\ rout' = [rout EXCEPT !.result = "invalid_structure"]
               /\ backupData' = bd /\ ri' = ri
             ELSE IF Prop(meta, K_tables).t # "arr" THEN
               /\ rpc' = "done" /\ rout' = [rout EXCEPT !.result = "exception"]
               /\ backupData' = bd /\ ri' = ri
             ELSE IF mismatch /\ ~RestoreForce(opts) THEN
               /\ rpc' = "done"
               /\ rout' = [rout EXCEPT !.checked = TRUE, !.stored = Prop(meta, K_checksum),
                                       !.current = currentChecksum,
                                       !.warned = TRUE, !.result = "checksum_abort"]
               /\ backupData' = bd /\ ri' = ri
             ELSE
               LET out == [rout EXCEPT !.checked = TRUE, !.stored = Prop(meta, K_checksum),
                                       !.current = currentChecksum,
                                       !.warned = mismatch, !.verified = ~mismatch] IN
               /\ backupData' = bd
               /\ IF RestoreDryRun(opts) THEN
                    /\ ri' = ri /\ rpc' = "done"
                    /\ rout' = IF NullOrUndefined(RequestsOf(bd))
                               THEN [out EXCEPT !.result = "exception"]
                               ELSE [out EXCEPT !.result = "dry_run",
                                                !.reported = Len(RequestItems(RequestsOf(bd)))]
                  ELSE IF ~RestoreForce(opts) THEN
                    /\ ri' = ri /\ rpc' = "confirm"
                    /\ rout' = [out EXCEPT !.asked = TRUE]
                  ELSE BeginExecute(bd, out)
  /\ UNCHANGED <<toolVars, typed, store, opLog, faults, files, rcounters, cleanupVars>>

\* the callback of rl.question in confirmRestore, and what restoreBackup
\* does with its result
RestoreConfirm ==
  /\ rpc = "confirm"
  /\ \E answer \in Answers :
       /\ typed' = <<answer>>
       /\ IF IsYes(answer) THEN BeginExecute(backupData, rout)
          ELSE rpc' = "done" /\ rout' = [rout EXCEPT !.result = "cancelled"] /\ ri' = ri
  /\ UNCHANGED <<toolVars, storeVars, files, ropts, backupData, rcounters, cleanupVars>>

\* one iteration of the loop of executeRestore: the upsert and its counter
RestoreStep ==
  /\ rpc = "execute"
  /\ LET items   == RequestItems(RequestsOf(backupData))
         request == items[ri]
     IN \E outcome \in UpsertOutcomes :
          /\ outcome = "ok" => IsRow(request)
          /\ (IsRow(request) /\ outcome # "ok") => faults < MaxFaults
          /\ ~IsRow(request) => outcome = "error"
          /\ store' = IF outcome = "ok" THEN StoreUpsert(store, RowOf(request)) ELSE store
          /\ faults' = IF IsRow(request) /\ outcome # "ok" THEN faults + 1 ELSE faults
          /\ opLog' = Append(opLog, [call |-> [op |-> "upsert", id |-> Prop(request, K_id).v,
                                               field |-> "", value |-> <<>>],
                                     ok |-> outcome = "ok"])
          /\ rcounters' = BumpRestore(rcounters, outcome)
          /\ IF ri < Len(items)
               THEN ri' = ri + 1 /\ rpc' = rpc /\ rout' = rout
               ELSE ri' = ri /\ rpc' = "done" /\ rout' = [rout EXCEPT !.result = "completed"]
  /\ UNCHANGED <<toolVars, typed, store0, files, ropts, backupData, cleanupVars>>

\* ---------------------------------------------------------------- integrity checks

\* JavaScript truthiness of a column value: null and '' are falsy
Falsy(value) == value = Null \/ value = <<>>

EmailAx      == <<97,64,98,46,99,45,120>>              \* "a@b.c-x"
ServiceXWeb  == <<120,45,119,101,98>>                  \* "x-web"

MaxAuditRows == 2

\* the rows the checks are run on: a sound row with every e-mail, service
\* and date (three dates, two of them on one calendar day), and rows whose
\* status or priority is invalid, empty or null
AuditRow ==
  [email : {EmailA, EmailAx}, service_type : {ServiceWeb, ServiceXWeb}, status : {pending},
   priority : {normal}, created_at : {<<50>>, <<51>>, <<56>>}]
  \cup
  [email : {EmailA}, service_type : {ServiceWeb}, status : {bogus, <<>>, Null},
   priority : {normal}, created_at : {<<56>>}]
  \cup
  [email : {EmailA}, service_type : {ServiceWeb}, status : {pending},
   priority : {bogus, <<>>, Null}, created_at : {<<56>>}]

RECURSIVE AuditRowsOf(_)
AuditRowsOf(n) ==
  IF n = 0 THEN {<<>>}
  ELSE {Append(rows, [id |-> Ids[n], email |-> r.email, service_type |-> r.service_type,
                      status |-> r.status, priority |-> r.priority,
                      created_at |-> r.created_at]) :
          rows \in AuditRowsOf(n - 1), r \in AuditRow}

AuditInputs(maxRows) == UNION {AuditRowsOf(n) : n \in 0..maxRows}

\* Array.prototype.filter(...).length
Indexes(data) == 1..Len(data)

\* what the select of a health check can come back with: rows, the error
\* 'relation does not exist', another error (data is null), a rejection
FetchOutcomes == {"ok", "missing", "error", "throw"}

\* VALID_VALUES.service_requests of health.ts
VALID_VALUES == [status |-> {pending, in_progress, completed, cancelled},
                 priority |-> {low, normal, high, urgent}]

\* checkDataIntegrity('service_requests') of health.ts
checkDataIntegrity(data, outcome) ==
  LET issues == Cardinality({k \in Indexes(data) : ~Falsy(data[k].status) /\ data[k].status \notin VALID_VALUES.status})
              + Cardinality({k \in Indexes(data) : ~Falsy(data[k].priority) /\ data[k].priority \notin VALID_VALUES.priority})
  IN CASE outcome = "throw"   -> [status |-> "fail", issues |-> 0]
       [] outcome = "missing" -> [status |-> "info", issues |-> 0]
       [] outcome = "error"   -> [status |-> "pass", issues |-> 0]
       [] Len(data) = 0       -> [status |-> "pass", issues |-> 0]
       [] issues > 0          -> [status |-> "warn", issues |-> issues]
       [] OTHER               -> [status |-> "pass", issues |-> 0]

\* String.prototype.includes('@'); on null the call throws
IncludesAt(value) == \E k \in 1..Len(value) : value[k] = 64

\* checkDataIntegrity() of the second health check in the same file
checkDataIntegrity2(data, outcome) ==
  LET issues == Cardinality({k \in Indexes(data) : data[k].status \notin validStatuses})
              + Cardinality({k \in Indexes(data) : data[k].priority \notin validPriorities})
              + Cardinality({k \in Indexes(data) : Falsy(data[k].email) \/ ~IncludesAt(data[k].email)})
  IN CASE outcome = "throw"               -> [status |-> "fail", issues |-> 0]
       [] outcome \in {"missing", "error"} -> [status |-> "warn", issues |-> 0]
       [] Len(data) = 0                   -> [status |-> "pass", issues |-> 0]
       [] issues > 0                      -> [status |-> "warn", issues |-> issues]
       [] OTHER                           -> [status |-> "pass", issues |-> 0]

NotRun == [status |-> "none", issues |-> 0]

\* cleanup's analyzeData over the rows
AuditAnalyze ==
  /\ audit.pc = "run" /\ ~audit.analyzed
  /\ \E removeCancelled \in BOOLEAN :
       audit' = [audit EXCEPT !.pc = "done", !.analyzed = TRUE,
                              !.report = analyzeData(audit.rows,
                                            [dryRun |-> TRUE, removeOld |-> 0,
                                             removeCancelled |-> removeCancelled])]
  /\ UNCHANGED <<storeVars, typed, files, cleanupVars, restoreVars, dir, stats, mon, live, health>>

\* health.ts: checkDataIntegrity('service_requests')
AuditHealth ==
  /\ audit.pc = "run" /\ audit.health = NotRun
  /\ \E outcome \in FetchOutcomes :
       audit' = [audit EXCEPT !.pc = "done",
                              !.health = checkDataIntegrity(IF outcome = "ok" THEN audit.rows ELSE <<>>,
                                                            outcome),
                              !.fetched = @ \cup (IF outcome = "ok" THEN {"health"} ELSE {})]
  /\ UNCHANGED <<storeVars, typed, files, cleanupVars, restoreVars, dir, stats, mon, live, health>>

\* the second health check: checkDataIntegrity()
AuditHealth2 ==
  /\ audit.pc = "run" /\ audit.health2 = NotRun
  /\ \E outcome \in FetchOutcomes :
       audit' = [audit EXCEPT !.pc = "done",
                              !.health2 = checkDataIntegrity2(IF outcome = "ok" THEN audit.rows ELSE <<>>,
                                                              outcome),
                              !.fetched = @ \cup (IF outcome = "ok" THEN {"health2"} ELSE {})]
  /\ UNCHANGED <<storeVars, typed, files, cleanupVars, restoreVars, dir, stats, mon, live, health>>

\* the e-mails the waitlist table holds when checkDuplicates reads it
Waitlists == {<<>>, <<EmailA>>, <<EmailA, EmailA>>}

\* e.length - new Set(e).size
Repeats(e) == Len(e) - Cardinality({e[k] : k \in Indexes(e)})

\* checkDuplicates of health.ts: the repeated lower-cased e-mails of
\* service_requests plus those of waitlist; a select that answers with an
\* error leaves its data null and its table uncounted
checkDuplicates(data, waitlist, outcome) ==
  LET e(rows) == [k \in Indexes(rows) |-> ToLower(rows[k])]
      s    == [k \in Indexes(data) |-> data[k].email]
      dups == (IF outcome = "ok" THEN Repeats(e(s)) ELSE 0) + Repeats(e(waitlist))
  IN CASE outcome = "throw" -> [status |-> "info", issues |-> 0]
       [] dups > 0          -> [status |-> "warn", issues |-> dups]
       [] OTHER             -> [status |-> "pass", issues |-> 0]

\* health.ts: checkDuplicates()
AuditDuplicates ==
  /\ audit.pc = "run" /\ audit.dups = NotRun
  /\ \E outcome \in {"ok", "error", "throw"}, waitlist \in Waitlists :
       audit' = [audit EXCEPT !.pc = "done", !.waitlist = waitlist,
                              !.dups = checkDuplicates(audit.rows, waitlist, outcome),
                              !.fetched = @ \cup (IF outcome = "ok" THEN {"duplicates"} ELSE {})]
  /\ UNCHANGED <<storeVars, typed, files, cleanupVars, restoreVars, dir, stats, mon, live, health>>

\* ---------------------------------------------------------------------
\* monitor.ts and live.ts: the polling loops
\* ---------------------------------------------------------------------

\* number of loop iterations explored
MaxTicks == 5

\* monitor.ts addChange: "if (this.state.recentChanges.length > 10)"
HistoryLimit == 10

\* parseArgs: interval 10 by default, --interval=5
DefaultInterval == 10
MonIntervals == {DefaultInterval, 5}

\* live.ts parseArgs: refresh 5 by default
DefaultRefresh == 5

MsPerSecond == 1000

MonRow(id, updated_at, status) ==
  [id |-> id, updated_at |-> updated_at, status |-> status]

\* contents of service_requests at the time of a fetch
MonTables ==
  {{}, {MonRow(1, 1, pending)}, {MonRow(5, 1, bogus)}}
  \cup {{MonRow(1, 1, pending), MonRow(2, u, pending), MonRow(3, 1, completed)} : u \in 1..2}
  \cup {{MonRow(2, u, pending), MonRow(3, 1, completed), MonRow(4, 1, pending)} : u \in 1..2}

\* .order('updated_at', { ascending: false })
RECURSIVE OrderByUpdatedAt(_)
OrderByUpdatedAt(table) ==
  IF table = {} THEN <<>>
  ELSE LET r == CHOOSE x \in table : \A y \in table :
                   \/ x.updated_at > y.updated_at
                   \/ (x.updated_at = y.updated_at /\ x.id <= y.id)
       IN <<r>> \o OrderByUpdatedAt(table \ {r})

\* the monitor after its constructor
MonFresh(interval) ==
  [pc |-> "start", isRunning |-> FALSE, interval |-> interval,
   connectionStatus |-> "checking", previousData |-> <<>>, recentChanges |-> <<>>,
   lastActivity |-> <<>>, totalRequests |-> 0,
   ticks |-> 0, inflight |-> 0, fetched |-> 0, renders |-> 0, wakes |-> 0,
   sleepMs |-> 0, lastOutcome |-> "none", recorded |-> 0,
   lastGood |-> <<>>, outage |-> 0]

\* addChange without the pop
addChangeKeepAll(m, type, record) ==
  LET changes == <<[type |-> type, record |-> record, timestamp |-> m.recorded + 1]>>
                 \o m.recentChanges
  IN [m EXCEPT !.recentChanges = changes, !.recorded = @ + 1]

\* addChange: unshift the event, pop the oldest one beyond the limit; the
\* timestamp is the ordinal of the call
addChange(m, type, record) ==
  LET changes == <<[type |-> type, record |-> record, timestamp |-> m.recorded + 1]>>
                 \o m.recentChanges
  IN [m EXCEPT !.recentChanges = IF Len(changes) > HistoryLimit
                                 THEN SubSeq(changes, 1, Len(changes) - 1)
                                 ELSE changes,
               !.recorded = @ + 1]

\* records.forEach(record => this.addChange(type, record))
RECURSIVE AddChanges(_, _, _)
AddChanges(m, type, records) ==
  IF records = <<>> THEN m
  ELSE AddChanges(addChange(m, type, Head(records)), type, Tail(records))

\* this.previousData.find(r => r.id === id): <<>> when there is none
FindById(data, id) ==
  LET found == {k \in Indexes(data) : data[k].id = id}
  IN IF found = {} THEN <<>>
     ELSE <<data[CHOOSE k \in found : \A j \in found : k <= j]>>

\* detectChanges without the pass over the removed records
detectChangesNoDelete(m, newData) ==
  LET previousIds == {m.previousData[k].id : k \in Indexes(m.previousData)}
      IsNew(record) == record.id \notin previousIds
      IsUpdated(newRecord) ==
        LET oldRecord == FindById(m.previousData, newRecord.id)
        IN oldRecord # <<>> /\ oldRecord[1].updated_at # newRecord.updated_at
      inserted == AddChanges(m, "INSERT", SelectSeq(newData, IsNew))
  IN AddChanges(inserted, "UPDATE", SelectSeq(newData, IsUpdated))

\* detectChanges: the new records, then the updated ones, then the removed
detectChanges(m, newData) ==
  LET previousIds == {m.previousData[k].id : k \in Indexes(m.previousData)}
      newIds == {newData[k].id : k \in Indexes(newData)}
      IsNew(record) == record.id \notin previousIds
      IsUpdated(newRecord) ==
        LET oldRecord == FindById(m.previousData, newRecord.id)
        IN oldRecord # <<>> /\ oldRecord[1].updated_at # newRecord.updated_at
      IsGone(record) == record.id \notin newIds
      inserted == AddChanges(m, "INSERT", SelectSeq(newData, IsNew))
      updated == AddChanges(inserted, "UPDATE", SelectSeq(newData, IsUpdated))
  IN AddChanges(updated, "DELETE", SelectSeq(m.previousData, IsGone))

MonOutcomes == {"ok", "error", "throw"}

\* update that leaves the connection status alone when the fetch fails
\* a failed fetch that also forgets the snapshot
onFetchErrorDropsSnapshot(m) ==
  [m EXCEPT !.connectionStatus = "disconnected", !.previousData = <<>>]

\* if (error) { connectionStatus = 'disconnected'; return } and the catch
onFetchError(m) == [m EXCEPT !.connectionStatus = "disconnected"]

updateKeepsStatus(m, outcome, data) ==
  LET done == [m EXCEPT !.inflight = @ - 1, !.fetched = @ + 1, !.lastOutcome = outcome]
  IN IF outcome # "ok" THEN done
     ELSE LET detected == IF Len(m.previousData) > 0 THEN detectChanges(done, data) ELSE done
          IN [detected EXCEPT !.connectionStatus = "connected",
                              !.previousData = data,
                              !.totalRequests = Len(data),
                              !.lastActivity = IF data = <<>> THEN <<>> ELSE <<data[1]>>]

\* update, from the moment the select settles
update(m, outcome, data) ==
  LET done == [m EXCEPT !.inflight = @ - 1, !.fetched = @ + 1, !.lastOutcome = outcome]
  IN IF outcome # "ok" THEN onFetchError(done)
     ELSE LET detected == IF Len(m.previousData) > 0 THEN detectChanges(done, data) ELSE done
          IN [detected EXCEPT !.connectionStatus = "connected",
                              !.previousData = data,
                              !.totalRequests = Len(data),
                              !.lastActivity = IF data = <<>> THEN <<>> ELSE <<data[1]>>]

\* render: STATUS_LABELS[activity.status] is undefined for a status outside
\* the labels, and reading its icon throws
RenderThrows(m) ==
  m.lastActivity # <<>> /\ m.lastActivity[1].status \notin validStatuses

\* start with a timer that does not wait for the fetch
LoopReadyAnyTime(m) == m.pc \in {"start", "sleep", "fetch"}

\* start: the loop is entered, or the sleep of the last iteration is over
LoopReady(m) == m.pc \in {"start", "sleep"}

\* the dashboard after its constructor
LiveFresh ==
  [pc |-> "start", isRunning |-> FALSE, refresh |-> DefaultRefresh,
   connectionStatus |-> "connecting", data |-> <<>>, refreshCount |-> 0,
   ticks |-> 0, inflight |-> 0, fetched |-> 0, renders |-> 0, wakes |-> 0,
   sleepMs |-> 0, lastOutcome |-> "none"]

\* refresh, from the moment the select settles
refresh(l, outcome, data) ==
  LET done == [l EXCEPT !.inflight = @ - 1, !.fetched = @ + 1, !.lastOutcome = outcome]
  IN IF outcome # "ok" THEN [done EXCEPT !.connectionStatus = "disconnected"]
     ELSE [done EXCEPT !.connectionStatus = "connected", !.data = data,
                       !.refreshCount = @ + 1]

LiveLoopReady(l) == l.pc \in {"start", "sleep"}

\* start: while (this.isRunning) { await this.update() ... : the fetch begins
MonTick ==
  /\ LoopReady(mon) /\ mon.ticks < MaxTicks
  /\ mon' = [mon EXCEPT !.pc = "fetch", !.isRunning = TRUE,
                        !.ticks = @ + 1, !.inflight = @ + 1,
                        !.wakes = IF mon.pc = "sleep" THEN @ + 1 ELSE @]
  /\ UNCHANGED <<storeVars, typed, files, cleanupVars, restoreVars, dir, stats, audit, live, health>>

\* the select settles: the rest of update, then render and the call of sleep
MonUpdate ==
  /\ mon.pc = "fetch"
  /\ \E outcome \in MonOutcomes, table \in MonTables :
       /\ outcome # "ok" => table = {}
       /\ LET data    == OrderByUpdatedAt(table)
              settled == update(mon, outcome, data)
              \* for the record: the last snapshot fetched, if any, and how many events
              \* a successful tick recorded right after a failed one
              updated == [settled EXCEPT
                            !.lastGood = IF outcome = "ok" THEN <<data>> ELSE @,
                            !.outage = IF outcome = "ok" /\ mon.lastOutcome \in {"error", "throw"}
                                       THEN settled.recorded - mon.recorded ELSE 0]
          IN mon' = IF RenderThrows(updated)
                    THEN [updated EXCEPT !.pc = "crashed"]
                    ELSE [updated EXCEPT !.pc = "sleep",
                                         !.renders = @ + 1,
                                         !.sleepMs = updated.interval * MsPerSecond]
  /\ UNCHANGED <<storeVars, typed, files, cleanupVars, restoreVars, dir, stats, audit, live, health>>

\* SIGINT: stop() ends the process with code 0
MonStop ==
  /\ mon.pc \in {"fetch", "sleep"}
  /\ mon' = [MonFresh(mon.interval) EXCEPT !.pc = "exit"]
  /\ UNCHANGED <<storeVars, typed, files, cleanupVars, restoreVars, dir, stats, audit, live, health>>

LiveTick ==
  /\ LiveLoopReady(live) /\ live.ticks < MaxTicks
  /\ live' = [live EXCEPT !.pc = "fetch", !.isRunning = TRUE,
                          !.connectionStatus = "connecting",
                          !.ticks = @ + 1, !.inflight = @ + 1,
                          !.wakes = IF live.pc = "sleep" THEN @ + 1 ELSE @]
  /\ UNCHANGED <<storeVars, typed, files, cleanupVars, restoreVars, dir, stats, audit, mon, health>>

LiveRefresh ==
  /\ live.pc = "fetch"
  /\ \E outcome \in MonOutcomes, table \in MonTables :
       /\ outcome # "ok" => table = {}
       /\ LET refreshed == refresh(live, outcome, OrderByUpdatedAt(table))
          IN live' = [refreshed EXCEPT !.pc = "sleep", !.renders = @ + 1,
                                       !.sleepMs = refreshed.refresh * MsPerSecond]
  /\ UNCHANGED <<storeVars, typed, files, cleanupVars, restoreVars, dir, stats, audit, mon, health>>

LiveStop ==
  /\ live.pc \in {"fetch", "sleep"}
  /\ live' = [LiveFresh EXCEPT !.pc = "exit"]
  /\ UNCHANGED <<storeVars, typed, files, cleanupVars, restoreVars, dir, stats, audit, mon, health>>

WatchIdle ==
  /\ mon = [MonFresh(DefaultInterval) EXCEPT !.pc = "idle"]
  /\ live = [LiveFresh EXCEPT !.pc = "idle"]

\* ---------------------------------------------------------------------
\* health.ts (both versions) and db-health.js: the health run
\* ---------------------------------------------------------------------

Engines == {"health.ts", "health2.ts", "db-health.js"}

HealthStatuses == {"pass", "warn", "fail", "info", "success", "warning", "error"}

Probe(name, statuses, onThrow) ==
  [name |-> name, statuses |-> statuses, onThrow |-> onThrow]

\* runHealthCheck of health.ts: the probes in call order, the statuses each
\* can return and the one its catch returns
HealthProbes ==
  << Probe("checkConnection", {"pass", "fail"}, "fail"),
     Probe("checkLatency", {"pass", "warn", "fail"}, "fail"),
     Probe("checkTable service_requests", {"pass", "warn", "fail"}, "fail"),
     Probe("checkTable waitlist", {"pass", "warn", "fail"}, "fail"),
     Probe("checkIndexes", {"pass", "warn"}, "warn"),
     Probe("checkQueryPerformance", {"pass", "warn", "fail"}, "fail"),
     Probe("checkConcurrency", {"pass", "warn"}, "warn"),
     Probe("checkRLS service_requests", {"pass", "warn", "info"}, "warn"),
     Probe("checkRLS waitlist", {"pass", "warn", "info"}, "warn"),
     Probe("checkDataIntegrity service_requests", {"pass", "warn", "fail", "info"}, "fail"),
     Probe("checkDataIntegrity waitlist", {"pass", "warn", "fail", "info"}, "fail"),
     Probe("checkDuplicates", {"pass", "warn", "info"}, "info"),
     Probe("checkEmailFormats", {"pass", "warn", "info"}, "info"),
     Probe("checkPhoneFormats", {"pass", "warn", "info"}, "info"),
     Probe("checkRequiredFields", {"pass", "warn", "info"}, "info"),
     Probe("checkTimestamps", {"pass", "warn", "info"}, "info"),
     Probe("checkFutureDates", {"pass", "warn", "info"}, "info"),
     Probe("checkStorage", {"pass", "info"}, "info"),
     Probe("checkDataGrowth", {"info"}, "info") >>

\* runHealthCheck of the second version
HealthProbes2 ==
  << Probe("checkConnection", {"pass", "warn", "fail"}, "fail"),
     Probe("checkTable", {"pass", "warn", "fail"}, "fail"),
     Probe("checkIndexes", {"pass", "warn", "fail"}, "fail"),
     Probe("checkRLS", {"pass", "warn"}, "warn"),
     Probe("checkDataIntegrity", {"pass", "warn", "fail"}, "fail"),
     Probe("checkPerformance", {"pass", "warn", "fail"}, "fail"),
     Probe("checkStorage", {"pass", "warn"}, "warn") >>

\* HealthChecker.runAllChecks of db-health.js
HealthChecks ==
  << Probe("checkConnection", {"success", "warning", "error"}, "error"),
     Probe("checkServiceRequestsTable", {"success", "error"}, "error"),
     Probe("checkBackupsTable", {"success", "warning", "error"}, "error"),
     Probe("checkLogsTable", {"success", "warning", "error"}, "error"),
     Probe("checkLatency", {"success", "warning", "error"}, "error"),
     Probe("checkPendingRequests", {"success", "warning", "error"}, "error"),
     Probe("checkUrgentRequests", {"success", "warning", "error"}, "error"),
     Probe("checkDataIntegrity", {"success", "warning", "error"}, "error"),
     Probe("checkEdgeFunctions", {"success", "warning"}, "warning") >>

ProbesOf(engine) ==
  IF engine = "health.ts" THEN HealthProbes
  ELSE IF engine = "health2.ts" THEN HealthProbes2
  ELSE HealthChecks

\* a probe whose catch rethrows
ProbeResultRethrow(probe, outcome) ==
  IF outcome = "throw" THEN "escaped" ELSE outcome

\* what a probe returns: every probe catches what its body throws and
\* returns a result for it
ProbeResult(probe, outcome) ==
  IF outcome = "throw" THEN probe.onThrow ELSE outcome

\* what the probes that query one table return when the store answers
\* 'relation ... does not exist': checkTable and checkDataIntegrity of
\* health.ts, checkTable and checkDataIntegrity of its second version,
\* checkServiceRequestsTable of db-health.js
MissingTable(engine) ==
  IF engine = "health.ts"
  THEN [name \in {"checkTable service_requests", "checkTable waitlist",
                  "checkDataIntegrity service_requests", "checkDataIntegrity waitlist"} |->
          IF name \in {"checkTable service_requests", "checkTable waitlist"}
          THEN "fail" ELSE "info"]
  ELSE IF engine = "health2.ts"
  THEN [name \in {"checkTable", "checkDataIntegrity"} |->
          IF name = "checkTable" THEN "fail" ELSE "warn"]
  ELSE [name \in {"checkServiceRequestsTable"} |-> "error"]

NoResults == [status \in HealthStatuses |-> 0]

NoSummary == [status |-> "none", clr |-> "none"]

\* printSummary that reports 'BOM' never
printSummaryNoBom(results) ==
  IF results["fail"] > 0 THEN [status |-> "CRITICO", clr |-> "red"]
  ELSE IF results["warn"] > 2 THEN [status |-> "ATENCAO", clr |-> "yellow"]
  ELSE [status |-> "SAUDAVEL", clr |-> "green"]

\* printSummary of health.ts: results.filter(r => r.status === ...).length
\* are the counts; the status line and its colour
printSummary(results) ==
  IF results["fail"] > 0 THEN [status |-> "CRITICO", clr |-> "red"]
  ELSE IF results["warn"] > 2 THEN [status |-> "ATENCAO", clr |-> "yellow"]
  ELSE IF results["warn"] > 0 THEN [status |-> "BOM", clr |-> "yellow"]
  ELSE [status |-> "SAUDAVEL", clr |-> "green"]

\* printSummary of the second version
printSummary2(results) ==
  IF results["fail"] > 0 THEN [status |-> "CRITICO", clr |-> "red"]
  ELSE IF results["warn"] > 0 THEN [status |-> "ATENCAO NECESSARIA", clr |-> "yellow"]
  ELSE [status |-> "SAUDAVEL", clr |-> "green"]

\* HealthChecker.displayResults
displayResults(results) ==
  IF results["error"] > 0 THEN [status |-> "SISTEMA COM PROBLEMAS", clr |-> "red"]
  ELSE IF results["warning"] > 0 THEN [status |-> "SISTEMA COM AVISOS", clr |-> "yellow"]
  ELSE [status |-> "SISTEMA SAUDAVEL", clr |-> "green"]

SummaryOf(engine, results) ==
  IF engine = "health.ts" THEN printSummary(results)
  ELSE IF engine = "health2.ts" THEN printSummary2(results)
  ELSE displayResults(results)

\* the exit code of a run that reached its summary: neither runHealthCheck
\* nor main sets one, whatever the summary says
ExitCodeSuccess == 0

\* main of db-health.js: catch (error) { ...; process.exit(1) }
ExitCodeFatal == 1

\* the run before its first probe; results holds, per status, how many
\* results of that status were pushed
HealthFresh(engine) ==
  [pc |-> "run", engine |-> engine, ran |-> <<>>, results |-> NoResults,
   summary |-> NoSummary, exitCode |-> -1, onMissing |-> {}]

\* the next probe settles: its result is pushed and printed; after the last
\* probe the summary follows and the process ends.  An exception leaving a
\* probe would reject runHealthCheck (reported by console.error) or reach
\* the catch of main
HealthProbe ==
  /\ health.pc = "run"
  /\ LET probes == ProbesOf(health.engine)
         probe == probes[Len(health.ran) + 1]
         missing == MissingTable(health.engine)
     IN \E outcome \in probe.statuses \cup {"throw"}
                       \cup (IF probe.name \in DOMAIN missing THEN {"missing"} ELSE {}) :
          LET status == IF outcome = "missing" THEN missing[probe.name]
                        ELSE ProbeResult(probe, outcome)
              ran == Append(health.ran, probe.name)
              onMissing == IF outcome = "missing" THEN health.onMissing \cup {status}
                           ELSE health.onMissing
          IN IF status = "escaped"
             THEN health' = [health EXCEPT !.pc = "aborted", !.ran = ran,
                                           !.exitCode = IF health.engine = "db-health.js"
                                                        THEN ExitCodeFatal ELSE ExitCodeSuccess]
             ELSE LET results == [health.results EXCEPT ![status] = @ + 1]
                  IN IF Len(ran) < Len(probes)
                     THEN health' = [health EXCEPT !.ran = ran, !.results = results,
                                                   !.onMissing = onMissing]
                     ELSE health' = [health EXCEPT !.pc = "done", !.ran = ran,
                                                   !.results = results,
                                                   !.onMissing = onMissing,
                                                   !.summary = SummaryOf(health.engine, results),
                                                   !.exitCode = ExitCodeSuccess]
  /\ UNCHANGED <<storeVars, typed, files, cleanupVars, restoreVars, dir, stats, audit, mon, live>>

\* ---------------------------------------------------------------- backup rotation
MaxExports == 3

\* how many backup files the directory holds when the tool starts
Preexisting == {0, maxBackups - 1, maxBackups, maxBackups + 2}

NoRun == [op |-> "none", before |-> <<>>, wrote |-> FALSE, file |-> [by |-> "none", mtime |-> 0],
          attempted |-> 0, removed |-> 0, deleted |-> 0]

\* the directory as listBackups sees it, oldest file first
DirFresh(n) ==
  [pc |-> "ready", listing |-> [k \in 1..n |-> [by |-> "older", mtime |-> k]],
   clock |-> n + 1, exports |-> 0, last |-> NoRun]

\* toDelete.length, which cleanupOldBackups returns
toDeleteLength(fs) == IF Len(fs) <= maxBackups THEN 0 ELSE Len(fs) - maxBackups

\* what a run of cleanupOldBackups over fs leaves in dir.last
Rotated(op, before, file, wrote, fs, failing) ==
  [op |-> op, before |-> before, wrote |-> wrote, file |-> file,
   attempted |-> toDeleteLength(fs),
   removed   |-> toDeleteLength(fs),
   deleted   |-> Len(fs) - Len(cleanupOldBackups(fs, failing))]

\* db-backup.js --full, or menu option 1: the file is written, then rotation
ExportFull ==
  /\ dir.pc = "ready" /\ dir.exports < MaxExports
  /\ LET file    == [by |-> "createFullBackup", mtime |-> dir.clock]
         written == Append(dir.listing, file)
     IN \E failing \in SUBSET (1..(Len(written) - maxBackups)) :
          dir' = [dir EXCEPT !.listing = IF autoCleanup THEN cleanupOldBackups(written, failing)
                                         ELSE written,
                             !.clock = @ + 1, !.exports = @ + 1,
                             !.last = IF autoCleanup
                                      THEN Rotated("createFullBackup", dir.listing, file, TRUE,
                                                   written, failing)
                                      ELSE [NoRun EXCEPT !.op = "createFullBackup",
                                                         !.before = dir.listing,
                                                         !.wrote = TRUE, !.file = file]]
  /\ UNCHANGED <<storeVars, typed, files, cleanupVars, restoreVars, audit, mon, live, health, stats>>

\* db-backup.js --service-requests, or menu option 2: the file is written
\* when the fetch succeeds; cleanupOldBackups is not called
ExportServiceRequests ==
  /\ dir.pc = "ready" /\ dir.exports < MaxExports
  /\ \E outcome \in {"ok", "error"} :
       LET file == [by |-> "createServiceRequestsBackup", mtime |-> dir.clock] IN
       dir' = [dir EXCEPT !.listing = IF outcome = "ok" THEN Append(@, file) ELSE @,
                          !.clock = @ + 1, !.exports = @ + 1,
                          !.last = [NoRun EXCEPT !.op = "createServiceRequestsBackup",
                                                 !.before = dir.listing,
                                                 !.wrote = (outcome = "ok"), !.file = file]]
  /\ UNCHANGED <<storeVars, typed, files, cleanupVars, restoreVars, audit, mon, live, health, stats>>

\* backup.ts: backups/backup_<date>_<ms>.json is written when the fetch
\* succeeds; the directory is listed, nothing is deleted
ExportCreateBackup ==
  /\ dir.pc = "ready" /\ dir.exports < MaxExports
  /\ \E outcome \in {"ok", "error"} :
       LET file == [by |-> "createBackup", mtime |-> dir.clock] IN
       dir' = [dir EXCEPT !.listing = IF outcome = "ok" THEN Append(@, file) ELSE @,
                          !.clock = @ + 1, !.exports = @ + 1,
                          !.last = [NoRun EXCEPT !.op = "createBackup",
                                                 !.before = dir.listing,
                                                 !.wrote = (outcome = "ok"), !.file = file]]
  /\ UNCHANGED <<storeVars, typed, files, cleanupVars, restoreVars, audit, mon, live, health, stats>>

\* db-backup.js --cleanup, or menu option 4: cleanupOldBackups and the
\* count printed as "<removed> backups removidos."
CleanupBackups ==
  /\ dir.pc = "ready" /\ dir.last.op # "cleanup"
  /\ \E failing \in SUBSET (1..(Len(dir.listing) - maxBackups)) :
       dir' = [dir EXCEPT !.listing = cleanupOldBackups(@, failing),
                          !.last = Rotated("cleanup", dir.listing, NoRun.file, FALSE,
                                           dir.listing, failing)]
  /\ UNCHANGED <<storeVars, typed, files, cleanupVars, restoreVars, audit, mon, live, health, stats>>

RotateIdle == dir = [DirFresh(0) EXCEPT !.pc = "idle"]

\* ---------------------------------------------------------------- statistics
MaxStatsRows == 2

medium == <<109,101,100,105,117,109>>                  \* "medium"

\* config.statusTypes and config.priorityTypes of config.js
statusTypes   == {pending, in_progress, completed, cancelled}
priorityTypes == {low, medium, high, urgent}

StatsEngines == {"db-stats.js", "stats.ts"}

\* the rows the report is computed from: every valid status and priority,
\* and a value outside each enumeration
StatsRow == [status : validStatuses \cup {bogus}, priority : validPriorities \cup {medium}]

RECURSIVE StatsRowsOf(_)
StatsRowsOf(n) ==
  IF n = 0 THEN {<<>>}
  ELSE {Append(rows, r) : rows \in StatsRowsOf(n - 1), r \in StatsRow}

\* data.filter(r => r.status === status).length for each of config.statusTypes
calculateStatusStats(data) ==
  [status \in statusTypes |-> Cardinality({k \in Indexes(data) : data[k].status = status})]

\* data.filter(r => r.priority === priority).length for each of config.priorityTypes
calculatePriorityStats(data) ==
  [priority \in priorityTypes |-> Cardinality({k \in Indexes(data) : data[k].priority = priority})]

\* calculateStatistics of stats.ts: total, byStatus and byPriority; a value
\* that is no key of the counter object is not counted
calculateStatistics(data) ==
  [total      |-> Len(data),
   byStatus   |-> [status \in {pending, in_progress, completed, cancelled} |->
                     Cardinality({k \in Indexes(data) : data[k].status = status})],
   byPriority |-> [priority \in {low, normal, high, urgent} |->
                     Cardinality({k \in Indexes(data) : data[k].priority = priority})]]

NoStats == [total |-> 0, byStatus |-> <<>>, byPriority |-> <<>>]

StatsFresh(engine, rows) ==
  [pc |-> "run", engine |-> engine, rows |-> rows, report |-> NoStats]

\* generateStats of db-stats.js / generateStatistics of stats.ts: the
\* fetch, then the report unless the fetch failed or the table is empty
StatsRun ==
  /\ stats.pc = "run"
  /\ \E outcome \in {"ok", "error"} :
       stats' = IF outcome = "error" THEN [stats EXCEPT !.pc = "failed"]
                ELSE IF Len(stats.rows) = 0 THEN [stats EXCEPT !.pc = "empty"]
                ELSE [stats EXCEPT
                        !.pc = "done",
                        !.report = IF stats.engine = "stats.ts"
                                   THEN calculateStatistics(stats.rows)
                                   ELSE [total      |-> Len(stats.rows),
                                         byStatus   |-> calculateStatusStats(stats.rows),
                                         byPriority |-> calculatePriorityStats(stats.rows)]]
  /\ UNCHANGED <<storeVars, typed, files, cleanupVars, restoreVars, audit, mon, live, health, dir>>

StatsIdle == stats = [StatsFresh("stats.ts", <<>>) EXCEPT !.pc = "idle"]

HealthIdle == health = [HealthFresh("health.ts") EXCEPT !.pc = "idle"]

AuditIdle ==
  audit = [pc |-> "idle", rows |-> <<>>, analyzed |-> FALSE, report |-> EmptyReport,
           health |-> NotRun, health2 |-> NotRun, dups |-> NotRun, waitlist |-> <<>>,
           fetched |-> {}]

ToolsIdle == AuditIdle /\ WatchIdle /\ HealthIdle /\ RotateIdle /\ StatsIdle

RestoreIdle ==
  /\ rpc = "idle"
  /\ ropts = [file |-> 0, dryRun |-> FALSE, force |-> FALSE]
  /\ backupData = Undefined
  /\ ri = 1
  /\ rcounters = [inserted |-> 0, skipped |-> 0, errors |-> 0]
  /\ rout = [checked |-> FALSE, stored |-> Undefined, current |-> <<>>,
             warned |-> FALSE, verified |-> FALSE, asked |-> FALSE,
             reported |-> -1, result |-> "idle"]

CleanupIdle ==
  /\ cpc = "idle"
  /\ cargv = {}
  /\ copts = CleanupParseArgs(cargv)
  /\ report = EmptyReport
  /\ cloop = 1 /\ ci = 1
  /\ counters = [fixed |-> 0, removed |-> 0, errors |-> 0]
  /\ cresult = "idle"

\* a cleanup run over any table content, with any command line
CleanupInit ==
  /\ store \in InitialStores
  /\ store0 = store
  /\ opLog = <<>>
  /\ faults = 0
  /\ typed = <<>>
  /\ cpc = "start"
  /\ cargv \in CleanupArgvs
  /\ copts = CleanupParseArgs(cargv)
  /\ report = EmptyReport
  /\ cloop = 1 /\ ci = 1
  /\ counters = [fixed |-> 0, removed |-> 0, errors |-> 0]
  /\ cresult = "running"
  /\ files = <<>>
  /\ RestoreIdle
  /\ ToolsIdle

\* an export, what happens to the file and to the table afterwards, and a
\* restore run
RestoreInit ==
  /\ store \in RestoreStores
  /\ store0 = store
  /\ opLog = <<>>
  /\ faults = 0
  /\ typed = <<>>
  /\ files = <<>>
  /\ rpc = "start"
  /\ ropts = [file |-> 0, dryRun |-> FALSE, force |-> FALSE]
  /\ backupData = Undefined
  /\ ri = 1
  /\ rcounters = [inserted |-> 0, skipped |-> 0, errors |-> 0]
  /\ rout = [checked |-> FALSE, stored |-> Undefined, current |-> <<>>,
             warned |-> FALSE, verified |-> FALSE, asked |-> FALSE,
             reported |-> -1, result |-> "running"]
  /\ CleanupIdle
  /\ ToolsIdle

\* the integrity checks over any rows
AuditInit ==
  /\ audit \in [pc : {"run"}, rows : AuditInputs(MaxAuditRows), analyzed : {FALSE}, report : {EmptyReport},
                health : {NotRun}, health2 : {NotRun}, dups : {NotRun}, waitlist : {<<>>},
                fetched : {{}}]
  /\ store = AsStore(<<>>) /\ store0 = store /\ opLog = <<>> /\ faults = 0
  /\ typed = <<>> /\ files = <<>>
  /\ CleanupIdle /\ RestoreIdle /\ WatchIdle /\ HealthIdle /\ RotateIdle /\ StatsIdle

vars == <<storeVars, typed, cleanupVars, files, restoreVars, toolVars>>

AuditNext == AuditAnalyze \/ AuditHealth \/ AuditHealth2 \/ AuditDuplicates

SpecAudit == AuditInit /\ [][AuditNext]_vars

WatchInit ==
  /\ \/ /\ mon \in {MonFresh(interval) : interval \in MonIntervals}
        /\ live = [LiveFresh EXCEPT !.pc = "idle"]
     \/ /\ mon = [MonFresh(DefaultInterval) EXCEPT !.pc = "idle"]
        /\ live = LiveFresh
  /\ store = AsStore(<<>>) /\ store0 = store /\ opLog = <<>> /\ faults = 0
  /\ typed = <<>> /\ files = <<>>
  /\ CleanupIdle /\ RestoreIdle /\ AuditIdle /\ HealthIdle /\ RotateIdle /\ StatsIdle

WatchNext == MonTick \/ MonUpdate \/ MonStop \/ LiveTick \/ LiveRefresh \/ LiveStop

SpecWatch == WatchInit /\ [][WatchNext]_vars

HealthInit ==
  /\ health \in {HealthFresh(engine) : engine \in Engines}
  /\ store = AsStore(<<>>) /\ store0 = store /\ opLog = <<>> /\ faults = 0
  /\ typed = <<>> /\ files = <<>>
  /\ CleanupIdle /\ RestoreIdle /\ AuditIdle /\ WatchIdle /\ RotateIdle /\ StatsIdle

HealthNext == HealthProbe

SpecHealth == HealthInit /\ [][HealthNext]_vars

RotateInit ==
  /\ dir \in {DirFresh(n) : n \in Preexisting}
  /\ store = AsStore(<<>>) /\ store0 = store /\ opLog = <<>> /\ faults = 0
  /\ typed = <<>> /\ files = <<>>
  /\ CleanupIdle /\ RestoreIdle /\ AuditIdle /\ WatchIdle /\ HealthIdle /\ StatsIdle

RotateNext == ExportFull \/ ExportServiceRequests \/ ExportCreateBackup \/ CleanupBackups

SpecRotate == RotateInit /\ [][RotateNext]_vars

StatsInit ==
  /\ stats \in {StatsFresh(engine, rows) :
                  engine \in StatsEngines, rows \in UNION {StatsRowsOf(n) : n \in 0..MaxStatsRows}}
  /\ store = AsStore(<<>>) /\ store0 = store /\ opLog = <<>> /\ faults = 0
  /\ typed = <<>> /\ files = <<>>
  /\ CleanupIdle /\ RestoreIdle /\ AuditIdle /\ WatchIdle /\ HealthIdle /\ RotateIdle

StatsNext == StatsRun

SpecStats == StatsInit /\ [][StatsNext]_vars

\* the timer of sleep always fires: setTimeout in a running process
SpecWatchLive == SpecWatch /\ WF_vars(MonTick) /\ WF_vars(LiveTick)

CleanupNext == CleanupStart \/ CleanupConfirm \/ CleanupStep

RestoreNext ==
  \/ CreateBackup \/ CreateFullBackup \/ CreateServiceRequestsBackup
  \/ Tamper \/ ResetStore \/ EditStore
  \/ RestoreStart \/ RestoreConfirm \/ RestoreStep

SpecCleanup == CleanupInit /\ [][CleanupNext]_vars

SpecRestore == RestoreInit /\ [][RestoreNext]_vars

\* either command, over the same store
Init == CleanupInit \/ RestoreInit
Next == CleanupNext \/ RestoreNext
Spec == Init /\ [][Next]_vars

\* ---------------------------------------------------------------- properties
\* the answers that mean yes
Affirmative == {AnsS, AnsSim, AnsUpperS, AnsUpperSim}

\* the prompt was answered with yes, or --force was given
Confirmed == RestoreForce(ropts) \/ (typed # <<>> /\ typed[1] \in Affirmative)

\* the store calls a loop list asks for, in the order of the loops
RECURSIVE PlannedFrom(_, _)
PlannedFrom(loops, loop) ==
  IF loop > LoopCount THEN <<>>
  ELSE [k \in 1..Len(loops[loop]) |-> CleanupCall(loop, loops[loop][k])]
       \o PlannedFrom(loops, loop + 1)

FailedCalls == Cardinality({k \in 1..Len(opLog) : ~opLog[k].ok})

\* C1: in cleanup and in live restore no update, delete or upsert is issued
\* unless the prompt was answered with yes or --force was given; after any
\* other answer, the empty one included, no call was issued and the table
\* is what it was when the run started
C1_MutationOnlyConfirmed ==
  /\ opLog # <<>> => Confirmed
  /\ (typed # <<>> /\ typed[1] \notin Affirmative) =>
        /\ opLog = <<>>
        /\ store = store0
        /\ (cpc = "done" \/ rpc = "done")

C1_Witness ==
  /\ typed = << <<>> >>
  /\ cresult = "cancelled"
  /\ TotalActions(report) > 0
  /\ store = store0

\* C2: a cleanup run with --dry-run issues no store call, and the table
\* (which rows there are and every field of each) stays what it was
C2_DryRunFrame ==
  copts.dryRun => (store = store0 /\ opLog = <<>> /\ cpc \in {"start", "done"})

C2_Witness ==
  /\ cresult = "dry_run"
  /\ TotalActions(report) > 0
  /\ store = store0

\* C3: when the checksum restore recomputes differs from the one stored in
\* the metadata, restore has printed the warning and issues no upsert unless
\* --force was given; with --force it goes on (to the dry-run report or to
\* the upserts, without a prompt) instead of stopping at the checksum
C3_ChecksumGate ==
  (rout.checked /\ rout.stored # JStr(rout.current)) =>
     /\ rout.warned /\ ~rout.verified
     /\ ~RestoreForce(ropts) => (opLog = <<>> /\ rpc = "done" /\ rout.result = "checksum_abort")
     /\ RestoreForce(ropts) => (rout.result # "checksum_abort" /\ ~rout.asked)
     /\ (RestoreForce(ropts) /\ ~RestoreDryRun(ropts) /\ rpc = "done"
           /\ RequestsOf(backupData).t = "arr")
        => (rout.result = "completed" /\ Len(opLog) = Len(RequestsOf(backupData).v))

C3_Witness ==
  /\ rout.warned
  /\ ropts.force
  /\ rout.result = "completed"
  /\ \E k \in 1..Len(opLog) : opLog[k].ok

\* C4 as stated: a dry-run restore reports the number of records and issues
\* no upsert, for every backup file
C4_Original ==
  (rpc = "done" /\ ropts.dryRun /\ ropts.file = 1) =>
     (rout.reported >= 0 /\ opLog = <<>>)

\* C4: a dry-run restore issues no upsert for any backup file, with or
\* without --force; it reports the number of records of the file when the
\* file is a valid backup with a list of records whose checksum matches or
\* whose mismatch --force overrides
C4_DryRun ==
  ropts.dryRun =>
     /\ opLog = <<>> /\ store = store0 /\ rpc \in {"start", "done"}
     /\ (rpc = "done" /\ rout.checked /\ RequestsOf(backupData).t = "arr"
           /\ (rout.stored = JStr(rout.current) \/ ropts.force))
        => /\ rout.result = "dry_run"
           /\ rout.reported = Len(RequestsOf(backupData).v)
           /\ ~files[1].tampered => rout.reported = Cardinality(DOMAIN files[1].held)

C4_Witness ==
  /\ rout.result = "dry_run"
  /\ ropts.force
  /\ rout.warned
  /\ rout.reported > 0
  /\ opLog = <<>>

\* the ids of the rows an executing restore asks the store to upsert
RequestIds ==
  LET items == RequestItems(RequestsOf(backupData)) IN
  {Prop(items[k], K_id).v : k \in {j \in 1..Len(items) : IsRow(items[j])}}

\* C5: restoring a backup into a table that already holds a row for every
\* id of the backup leaves the table as it was: the same ids, and every
\* field of every row unchanged
C5_SecondRestore ==
  (rpc \in {"execute", "done"} /\ RequestIds \subseteq DOMAIN store0) => store = store0

C5_Witness ==
  /\ rout.result = "completed"
  /\ rcounters.inserted > 0
  /\ RequestIds \subseteq DOMAIN store0
  /\ store[Ids[1]].status = completed
  /\ files[1].held[Ids[1]].status # completed

\* C6 as stated: a table exported to a backup file, the file restored
\* (confirmed, no store error) into the emptied table: the table holds the
\* rows it held at the export
C6_RoundTrip ==
  (/\ rpc = "done" /\ ropts.file = 1 /\ ~ropts.dryRun
   /\ Len(files) = 1
   /\ files[1].fetched /\ ~files[1].tampered
   /\ DOMAIN store0 = {}
   /\ Confirmed /\ faults = 0)
  => store = files[1].held

\* C7 as stated: after one byte of the payload of a backup file with a
\* checksum was changed, restore reports the mismatch (or cannot read the
\* file at all)
C7_ByteChange ==
  (/\ rpc # "start" /\ ropts.file = 1
   /\ Len(files) = 1
   /\ files[1].by = "createBackup" /\ files[1].tampered)
  => (rout.warned \/ rout.result = "invalid_json")

\* C8: executeCleanup and executeRestore issue their store calls one at a
\* time in the order of their lists; each call bumps exactly one counter, a
\* failed call the error (or skipped) counter, and the run ends only after
\* the last item, so the counters sum to the number of calls attempted
C8_BulkCounters ==
  /\ cpc # "idle" =>
       LET planned == PlannedFrom(CleanupLoops(report, copts), 1) IN
       /\ Len(opLog) <= Len(planned)
       /\ \A k \in 1..Len(opLog) : opLog[k].call = planned[k]
       /\ counters.fixed + counters.removed + counters.errors = Len(opLog)
       /\ counters.errors = FailedCalls
       /\ cpc = "execute" => (cloop <= LoopCount /\ Len(opLog) < Len(planned))
       /\ (cpc = "done" /\ typed # <<>> /\ typed[1] \in Affirmative)
            => (cresult = "completed" /\ Len(opLog) = Len(planned))
  /\ rpc # "idle" =>
       LET items == RequestItems(RequestsOf(backupData)) IN
       /\ \A k \in 1..Len(opLog) :
            /\ opLog[k].call.op = "upsert"
            /\ k <= Len(items) /\ opLog[k].call.id = Prop(items[k], K_id).v
       /\ rcounters.inserted + rcounters.skipped + rcounters.errors = Len(opLog)
       /\ rcounters.skipped + rcounters.errors = FailedCalls
       /\ rpc = "execute" => (ri = Len(opLog) + 1 /\ ri <= Len(items))
       /\ (rpc = "done" /\ rout.result = "completed") => Len(opLog) = Len(items)
       /\ (rpc = "done" /\ Confirmed /\ ~ropts.dryRun /\ rout.checked
             /\ RequestsOf(backupData).t = "arr") => rout.result = "completed"

C8_Witness ==
  /\ cresult = "completed"
  /\ Len(opLog) >= 2
  /\ ~opLog[1].ok
  /\ opLog[Len(opLog)].ok
  /\ counters.errors = 1

\* C9 as stated: a record of the backup whose id the table already holds
\* counts as skipped; only the records whose id was absent count as inserted
C9_Classified ==
  (rpc = "done" /\ rout.result = "completed" /\ faults = 0) =>
     /\ rcounters.inserted = Cardinality(DOMAIN store \ DOMAIN store0)
     /\ rcounters.skipped = Cardinality(RequestIds \cap DOMAIN store0)

\* C11 as stated: with --force on the command line, a restore or a cleanup
\* that is no dry run and has something to do never asks for confirmation
\* and goes on to its store calls
C11_ForceSkipsPrompt ==
  /\ (rpc # "idle" /\ RestoreForce(ropts)) =>
        /\ rpc # "confirm" /\ ~rout.asked /\ typed = <<>>
        /\ (~RestoreDryRun(ropts) /\ rout.checked
              /\ Len(RequestItems(RequestsOf(backupData))) > 0)
           => (rpc = "execute" \/ (rpc = "done" /\ opLog # <<>>))
  /\ (cpc # "idle" /\ "--force" \in cargv) =>
        /\ cpc # "confirm" /\ typed = <<>>
        /\ (~CleanupDryRun(copts) /\ TotalActions(report) > 0)
           => (cpc = "execute" \/ (cpc = "done" /\ opLog # <<>>))

\* C12 as stated: each check flags a row as invalid-status exactly when its
\* status is none of the four valid ones and as invalid-priority exactly
\* when its priority is none of the four valid ones; a null or empty value
\* is flagged like any other
C12_EnumAudit ==
  LET BadStatus(row)   == row.status \notin {pending, in_progress, completed, cancelled}
      BadPriority(row) == row.priority \notin {low, normal, high, urgent}
      flagged == Cardinality({k \in Indexes(audit.rows) : BadStatus(audit.rows[k])})
                 + Cardinality({k \in Indexes(audit.rows) : BadPriority(audit.rows[k])})
  IN /\ audit.analyzed =>
          /\ audit.report.invalidStatus = SelectSeq(audit.rows, BadStatus)
          /\ audit.report.invalidPriority = SelectSeq(audit.rows, BadPriority)
     /\ "health" \in audit.fetched =>
          /\ audit.health.issues = flagged
          /\ audit.health.status = "pass" <=> flagged = 0
     /\ "health2" \in audit.fetched =>
          /\ audit.health2.issues = flagged
          /\ audit.health2.status = "pass" <=> flagged = 0

\* C13 as stated: the duplicates of analyzeData are exactly the rows whose
\* (email, service_type, calendar day of created_at) equals that of a row
\* earlier in the input, in input order; the first row of each key is never
\* among them
C13_DuplicatePartition ==
  LET KeyOf(row) == <<row.email, row.service_type, TimeOf(row.created_at) \div TicksPerDay>>
      Later(k)   == \E j \in 1..(k - 1) : KeyOf(audit.rows[j]) = KeyOf(audit.rows[k])
      expected   == {k \in 1..Len(audit.rows) : Later(k)}
  IN audit.analyzed =>
       /\ Len(audit.report.duplicates) = Cardinality(expected)
       /\ \A k \in 1..Len(audit.rows) :
            (k \in expected) <=>
               (\E d \in 1..Len(audit.report.duplicates) : audit.report.duplicates[d] = audit.rows[k])
       /\ \A d, e \in 1..Len(audit.report.duplicates) :
            d < e => \E j, k \in 1..Len(audit.rows) :
                       j < k /\ audit.rows[j] = audit.report.duplicates[d]
                             /\ audit.rows[k] = audit.report.duplicates[e]

\* the ids of a snapshot
IdsOf(data) == {data[k].id : k \in Indexes(data)}

\* events holds exactly one INSERT per id of B not in A, one DELETE per id
\* of A not in B, one UPDATE per id of both whose updated_at differs, and
\* nothing else
ExactDiff(A, B, events) ==
  LET Count(type, id) ==
        Cardinality({k \in Indexes(events) :
                       events[k].type = type /\ events[k].record.id = id})
      Changed(id) == FindById(A, id)[1].updated_at # FindById(B, id)[1].updated_at
  IN /\ \A k \in Indexes(events) :
          /\ events[k].type \in {"INSERT", "UPDATE", "DELETE"}
          /\ events[k].record.id \in IdsOf(A) \cup IdsOf(B)
     /\ \A id \in IdsOf(A) \cup IdsOf(B) :
          /\ Count("INSERT", id) = IF id \in IdsOf(B) \ IdsOf(A) THEN 1 ELSE 0
          /\ Count("DELETE", id) = IF id \in IdsOf(A) \ IdsOf(B) THEN 1 ELSE 0
          /\ Count("UPDATE", id) = IF id \in IdsOf(A) \cap IdsOf(B) /\ Changed(id)
                                   THEN 1 ELSE 0

\* a step in which the monitor's select settles with data
MonFetched == mon.pc = "fetch" /\ mon'.lastOutcome = "ok" /\ mon'.fetched = mon.fetched + 1

\* the events recorded by the step, oldest first
MonYielded ==
  LET n == mon'.recorded - mon.recorded
  IN [k \in 1..n |-> mon'.recentChanges[n + 1 - k]]

C15_History ==
  /\ Len(mon.recentChanges) <= 10
  /\ Len(mon.recentChanges) = IF mon.recorded < 10 THEN mon.recorded ELSE 10
  /\ \A k \in Indexes(mon.recentChanges) :
       mon.recentChanges[k].timestamp = mon.recorded + 1 - k

\* more than 10 events were recorded
C15_Witness == mon.recorded > 10 /\ Len(mon.recentChanges) = 10

\* the loop of w sleeps after tick n, whose fetch failed
FailedTick(w, n) ==
  w.pc = "sleep" /\ w.ticks = n /\ w.lastOutcome \in {"error", "throw"}

\* C16: when a fetch fails (error result or exception) the connection
\* status becomes disconnected, the process neither exits nor crashes, the
\* sleep is the configured interval and the next tick follows (unless the
\* user interrupts the process); a fetch that succeeds sets the status to
\* connected
C16_Retry ==
  /\ [](mon.lastOutcome \in {"error", "throw"} =>
          /\ mon.pc \in {"fetch", "sleep"}
          /\ mon.connectionStatus = "disconnected"
          /\ mon.pc = "sleep" => mon.sleepMs = mon.interval * 1000)
  /\ [](live.lastOutcome \in {"error", "throw"} =>
          /\ live.pc \in {"fetch", "sleep"}
          /\ live.pc = "sleep" => /\ live.connectionStatus = "disconnected"
                                  /\ live.sleepMs = live.refresh * 1000)
  /\ []((mon.lastOutcome = "ok" /\ mon.pc = "sleep") =>
          mon.connectionStatus = "connected" /\ mon.sleepMs = mon.interval * 1000)
  /\ []((live.lastOutcome = "ok" /\ live.pc = "sleep") =>
          live.connectionStatus = "connected" /\ live.sleepMs = live.refresh * 1000)
  /\ \A n \in 1..(MaxTicks - 1) :
       /\ FailedTick(mon, n) ~> ((mon.pc = "fetch" /\ mon.ticks = n + 1) \/ mon.pc = "exit")
       /\ FailedTick(live, n) ~> ((live.pc = "fetch" /\ live.ticks = n + 1) \/ live.pc = "exit")

\* a fetch failed by exception, the monitor shows disconnected and the
\* fetch of the next tick is under way
C16_Witness ==
  /\ mon.pc = "fetch" /\ mon.ticks > 1
  /\ mon.lastOutcome = "throw" /\ mon.connectionStatus = "disconnected"

\* the fetch of tick n is the only one in flight, and the fetches, renders
\* and sleeps of the n - 1 ticks before it are over
OneAtATime(w) ==
  /\ w.inflight <= 1
  /\ w.inflight = 1 <=> w.pc = "fetch"
  /\ w.pc = "fetch" => /\ w.fetched = w.ticks - 1
                       /\ w.renders = w.ticks - 1
                       /\ w.wakes = w.ticks - 1

\* C17: ticks never overlap: never two fetches in flight, and the fetch of
\* a tick starts only after the previous tick's fetch, render and sleep
C17_NoOverlap == OneAtATime(mon) /\ OneAtATime(live)

\* the third fetch of the monitor is in flight after two full ticks
C17_Witness == mon.inflight = 1 /\ mon.ticks = 3 /\ mon.renders = 2 /\ mon.wakes = 2

\* how many results of the fail class, and of the warn class, a run holds
FailCount == health.results["fail"] + health.results["error"]
WarnCount == health.results["warn"] + health.results["warning"]

\* the class of the status line of a summary: the red one is fail, the
\* yellow ones are warn, the green one is pass
OverallOf(summary) ==
  IF summary.clr = "red" THEN "fail"
  ELSE IF summary.clr = "yellow" THEN "warn"
  ELSE IF summary.clr = "green" THEN "pass"
  ELSE "none"

\* C18: the overall status of a health run is fail if any result is fail;
\* otherwise warn if at least one result is warn; otherwise pass; info
\* results never change it
C18_Overall ==
  health.pc = "done" =>
    OverallOf(health.summary) = IF FailCount > 0 THEN "fail"
                                ELSE IF WarnCount > 0 THEN "warn"
                                ELSE "pass"

\* a run of health.ts with one warn, no fail and some info results ended
\* with a yellow status line
C18_Witness ==
  /\ health.pc = "done" /\ health.engine = "health.ts"
  /\ health.results["warn"] = 1 /\ health.results["fail"] = 0
  /\ health.results["info"] > 0
  /\ health.summary.clr = "yellow"

\* C19 as stated: a health run ends with a non-zero exit code exactly when
\* its overall status is fail
C19_ExitCode ==
  health.pc = "done" => (health.exitCode # 0 <=> FailCount > 0)

\* C20: a health run executes the probes of its list once each, in the
\* order of the list, one result per probe, whatever the probes return or
\* throw, and ends with the summary
C20_AllProbes ==
  health.pc # "idle" =>
    LET probes == ProbesOf(health.engine)
        names == [k \in 1..Len(probes) |-> probes[k].name]
        pushed == health.results["pass"] + health.results["warn"] + health.results["fail"]
                  + health.results["info"] + health.results["success"]
                  + health.results["warning"] + health.results["error"]
    IN /\ health.pc \in {"run", "done"}
       /\ Len(health.ran) <= Len(names)
       /\ health.ran = SubSeq(names, 1, Len(health.ran))
       /\ pushed = Len(health.ran)
       /\ health.pc = "run" => (Len(health.ran) < Len(names) /\ ENABLED HealthProbe)
       /\ health.pc = "done" => (health.ran = names /\ health.summary # NoSummary)

\* a run of db-health.js with error results ran its nine checks and
\* printed its summary
C20_Witness ==
  /\ health.pc = "done" /\ health.engine = "db-health.js"
  /\ health.results["error"] > 1
  /\ Len(health.ran) = 9

\* C21 as stated: a probe that finds its table missing yields a result of
\* status info or warn, never fail
C21_MissingDegrades ==
  health.onMissing \subseteq {"info", "warn", "warning"}

\* the n newest files of a listing that is oldest first
Newest(fs, n) == IF Len(fs) <= n THEN fs ELSE SubSeq(fs, Len(fs) - n + 1, Len(fs))

ExportOps == {"createFullBackup", "createServiceRequestsBackup", "createBackup"}

\* C22 as stated: after every export that wrote its file, whichever entry
\* point ran it, the directory holds at most maxBackups backup files and
\* they are the maxBackups newest of those that were there plus the new one
C22_Retention ==
  (dir.last.op \in ExportOps /\ dir.last.wrote)
    => /\ Len(dir.listing) <= maxBackups
       /\ dir.listing = Newest(Append(dir.last.before, dir.last.file), maxBackups)

\* C30 as stated: a rotation attempts the unlink of every file beyond the
\* maxBackups newest, and the count it returns and prints is the number of
\* files it deleted
C30_RotationCount ==
  dir.last.op = "cleanup"
    => /\ dir.last.attempted = toDeleteLength(dir.last.before)
       /\ dir.last.removed = dir.last.deleted

\* C23 as stated: whichever export wrote a backup file, compressed or not,
\* a restore run over the unmodified file has recomputed the checksum of
\* its payload and found it equal to the one in the file's metadata
C23_ChecksumCarried ==
  (/\ rpc = "done" /\ ropts.file = 1
   /\ Len(files) = 1 /\ ~files[1].tampered)
  => (rout.checked /\ rout.verified /\ ~rout.warned)

\* C24 as stated: when a tick whose fetch succeeds follows a tick whose
\* fetch succeeded, every id of the newer snapshot that the earlier one
\* lacks has an INSERT event among those the tick records, however many
\* rows the earlier snapshot held
C24_InsertEvents ==
  [][(MonFetched /\ mon.lastOutcome = "ok" /\ mon.fetched >= 1) =>
        \A id \in IdsOf(mon'.previousData) \ IdsOf(mon.previousData) :
          \E k \in Indexes(MonYielded) :
            MonYielded[k].type = "INSERT" /\ MonYielded[k].record.id = id]_vars

\* C25 as stated: over the same rows of service_requests the integrity
\* probes of the health check count what cleanup's analysis counts: as
\* many rows of invalid status or priority, and as many duplicates
C25_SameCounts ==
  LET rep == analyzeData(audit.rows, [dryRun |-> TRUE, removeOld |-> 0, removeCancelled |-> FALSE])
  IN /\ "health" \in audit.fetched =>
          audit.health.issues = Len(rep.invalidStatus) + Len(rep.invalidPriority)
     /\ ("duplicates" \in audit.fetched /\ audit.waitlist = <<>>) =>
          audit.dups.issues = Len(rep.duplicates)

\* the sum of the counts of a counter object
RECURSIVE SumOver(_, _)
SumOver(counts, keys) ==
  IF keys = {} THEN 0
  ELSE LET key == CHOOSE key \in keys : TRUE
       IN counts[key] + SumOver(counts, keys \ {key})

\* C26 as stated: over rows whose status and priority are all valid the
\* report counts every row under its own status and its own priority, so
\* the counts by status and the counts by priority each sum to the total
C26_StatsSums ==
  (/\ stats.pc = "done"
   /\ \A k \in Indexes(stats.rows) :
        /\ stats.rows[k].status \in {pending, in_progress, completed, cancelled}
        /\ stats.rows[k].priority \in {low, normal, high, urgent})
  => /\ stats.report.total = Len(stats.rows)
     /\ \A k \in Indexes(stats.rows) :
          /\ stats.rows[k].status \in DOMAIN stats.report.byStatus
          /\ stats.rows[k].priority \in DOMAIN stats.report.byPriority
     /\ SumOver(stats.report.byStatus, DOMAIN stats.report.byStatus) = stats.report.total
     /\ SumOver(stats.report.byPriority, DOMAIN stats.report.byPriority) = stats.report.total

\* C27 as stated: when the rows of valid status had completed_at set only
\* on completed rows, then after a confirmed executeCleanup without store
\* errors every row left has a valid status, a valid priority, and
\* completed_at set only if its status is completed
C27_RecordInvariant ==
  (/\ cresult = "completed" /\ counters.errors = 0
   /\ \A id \in DOMAIN store0 :
        (store0[id].status \in validStatuses /\ store0[id].completed_at # Null)
          => store0[id].status = completed)
  => \A id \in DOMAIN store :
       /\ store[id].status \in validStatuses
       /\ store[id].priority \in validPriorities
       /\ store[id].completed_at # Null => store[id].status = completed

\* C29: after a confirmed executeCleanup without store errors and with no
\* other writer, analyzeData over the table as any later fetch returns it
\* finds no row of invalid status, none of invalid priority and no duplicate
C29_Reanalysis ==
  (cresult = "completed" /\ counters.errors = 0) =>
     \A data \in FetchOrders(store) :
       LET again == analyzeData(data, copts)
       IN /\ again.invalidStatus = <<>>
          /\ again.invalidPriority = <<>>
          /\ again.duplicates = <<>>

\* a run that repaired a status and a priority and deleted a duplicate
C29_Witness ==
  /\ cresult = "completed" /\ counters.errors = 0
  /\ report.invalidStatus # <<>> /\ report.invalidPriority # <<>>
  /\ report.duplicates # <<>>
  /\ counters.fixed >= 2 /\ counters.removed >= 1
  /\ DOMAIN store # {} /\ DOMAIN store # DOMAIN store0

\* the step in which a select of the monitor fails
MonFailed ==
  mon.pc = "fetch" /\ mon'.fetched = mon.fetched + 1 /\ mon'.lastOutcome \in {"error", "throw"}

ActedIds ==
  LET loops == CleanupLoops(report, copts) IN
  UNION {{loops[l][k].id : k \in 1..Len(loops[l])} : l \in 1..LoopCount}

\* C10: after a confirmed executeCleanup without store errors, every row
\* whose status was not a valid one got the call setting it to pending and,
\* where it was not deleted, has status pending; the same for priority and
\* normal; every row in no list acted upon is present with all its fields
C10_CleanupEffect ==
  (cresult = "completed" /\ counters.errors = 0) =>
     \A id \in DOMAIN store0 :
       /\ store0[id].status \notin {pending, in_progress, completed, cancelled} =>
            /\ \E k \in 1..Len(opLog) :
                 opLog[k] = [call |-> [op |-> "update", id |-> id, field |-> "status",
                                       value |-> pending], ok |-> TRUE]
            /\ id \in DOMAIN store => store[id].status = pending
       /\ store0[id].priority \notin {low, normal, high, urgent} =>
            /\ \E k \in 1..Len(opLog) :
                 opLog[k] = [call |-> [op |-> "update", id |-> id, field |-> "priority",
                                       value |-> normal], ok |-> TRUE]
            /\ id \in DOMAIN store => store[id].priority = normal
       /\ id \in DOMAIN store =>
            /\ store[id].status \in {store0[id].status, pending}
            /\ store[id].priority \in {store0[id].priority, normal}
            /\ \A f \in {"id", "email", "service_type", "created_at"} :
                 store[id][f] = store0[id][f]
       /\ id \notin ActedIds => (id \in DOMAIN store /\ store[id] = store0[id])

C10_Witness ==
  /\ cresult = "completed" /\ counters.errors = 0
  /\ \E id \in DOMAIN store0 :
       /\ store0[id].status = bogus
       /\ id \in DOMAIN store /\ store[id].status = pending
  /\ \E id \in DOMAIN store0 : id \notin ActedIds /\ store[id] = store0[id]

====
